---------------------------- MODULE Spec2Model ----------------------------
(***************************************************************************)
(* Model of MPVController (src/mpv_controller.py): a supervisor of one     *)
(* external mpv process, driven over a JSON IPC socket at a fixed path,    *)
(* called from the request threads of the web front end (src/app.py).      *)
(*                                                                         *)
(* Every controller method is a sequence of steps; a step boundary is put  *)
(* at each blocking call of the method (an IPC exchange, a wait on the     *)
(* child, a sleep), which is where the player and other threads can act.   *)
(* A thread's position inside a method is th[t].pc; th[t].pc = "idle"      *)
(* means the thread is between operations.                                 *)
(*                                                                         *)
(* Spec     : one calling thread (operations never overlap).               *)
(* SpecConc : several calling threads (Flask runs with threaded=True).     *)
(***************************************************************************)
EXTENDS Integers, Sequences, FiniteSets, TLC

\* ------------------------------------------------------------------ bounds
\* Largest playback position / media duration the player reports (seconds).
MaxPos == 2
\* Number of process-table slots: how many children can exist at once.
MaxProcs == 2
\* Number of front-end threads calling the controller under SpecConc.
NThreads == 2
\* Number of requests each of those threads serves under SpecConc.
MaxCalls == 1
\* Number of requests served in one run under SpecLive.
LiveCalls == 3
\* Number of requests served in one run under SpecApp, those for the
\* status (which the web page polls) not counted.
AppCalls == 2

\* ------------------------------------------------------- program constants
\* play(): max_attempts socket-readiness checks.
max_attempts == 20
\* __init__: self.volume = 100.
DefaultVolume == 100

\* --------------------------------------------------------------- the world
ProcIds == 1..MaxProcs

\* PlayerState values.
STOPPED == "stopped"
PLAYING == "playing"
PAUSED  == "paused"
ERROR   == "error"

\* Python's None, for optional strings and tri-state results.
None == "None"

\* self.media_dir, and the paths handed to play(): sequences of components.
media_dir == <<"media">>
ExistingPaths == {<<"media", "a.mp4">>, <<"media", "b.mp4">>}
Paths == ExistingPaths \cup {<<"media", "x.mp4">>}

\* Path(file_path).name: the last component of the path.
PathName(path) == path[Len(path)]

\* Path(file_path).exists(), as long as no file is removed.
PathExists(path) == path \in ExistingPaths

\* self.media_dir / self.current_file
JoinMedia(name) == Append(media_dir, name)

\* Inputs of the operations.
SkipAmounts == {-1, 1}
SeekPositions == 0..MaxPos
Levels == {50, 200}
Outputs == {"auto", "HDMI-A-1"}

\* What one IPC exchange can come to once the socket file exists and the
\* player accepted the connection: a reply with the success marker, a reply
\* with another status, or no usable reply (timeout, IO or parse error).
Outcomes == {"ok", "err", "none"}

\* ============================================ the front end (src/app.py)
\* ----------------------------------------------------------------- text
\* A string is the sequence of its characters. Names the controller handles
\* as whole values (file names, connector selectors) are listed in Spelling
\* with their characters.
Spelling ==
    ("a.mp4" :> <<"a", ".", "m", "p", "4">>) @@
    ("b.mp4" :> <<"b", ".", "m", "p", "4">>) @@
    ("x.mp4" :> <<"x", ".", "m", "p", "4">>) @@
    ("l.mp4" :> <<"l", ".", "m", "p", "4">>) @@
    ("a_b.mp4" :> <<"a", "_", "b", ".", "m", "p", "4">>) @@
    ("a.MP4" :> <<"a", ".", "M", "P", "4">>) @@
    ("auto" :> <<"a", "u", "t", "o">>) @@
    ("HDMI-A-1" :> <<"H", "D", "M", "I", "-", "A", "-", "1">>) @@
    ("HDMI-A-2" :> <<"H", "D", "M", "I", "-", "A", "-", "2">>) @@
    (".mp4" :> <<".", "m", "p", "4">>) @@
    (".avi" :> <<".", "a", "v", "i">>) @@
    (".mkv" :> <<".", "m", "k", "v">>) @@
    (".mov" :> <<".", "m", "o", "v">>) @@
    (".wmv" :> <<".", "w", "m", "v">>) @@
    (".flv" :> <<".", "f", "l", "v">>) @@
    (".webm" :> <<".", "w", "e", "b", "m">>) @@
    (".m4v" :> <<".", "m", "4", "v">>) @@
    (".mpg" :> <<".", "m", "p", "g">>) @@
    (".mpeg" :> <<".", "m", "p", "e", "g">>) @@
    (".3gp" :> <<".", "3", "g", "p">>) @@
    (".ogv" :> <<".", "o", "g", "v">>)

Str(name) == Spelling[name]

\* The name spelled by the characters s (s is the spelling of a name).
Name(s) == CHOOSE name \in DOMAIN Spelling : Spelling[name] = s

DigitChars == <<"0", "1", "2", "3", "4", "5", "6", "7", "8", "9">>
UpperChars ==
    <<"A", "B", "C", "D", "E", "F", "G", "H", "I", "J", "K", "L", "M",
      "N", "O", "P", "Q", "R", "S", "T", "U", "V", "W", "X", "Y", "Z">>
LowerChars ==
    <<"a", "b", "c", "d", "e", "f", "g", "h", "i", "j", "k", "l", "m",
      "n", "o", "p", "q", "r", "s", "t", "u", "v", "w", "x", "y", "z">>

Range(f) == {f[i] : i \in DOMAIN f}

IsDigit(c) == c \in Range(DigitChars)

DigitValue(c) == (CHOOSE i \in DOMAIN DigitChars : DigitChars[i] = c) - 1

\* str.lower() on one character, and on a string.
LowerChar(c) ==
    IF c \in Range(UpperChars)
    THEN LowerChars[CHOOSE i \in DOMAIN UpperChars : UpperChars[i] = c]
    ELSE c

Lower(s) == [i \in DOMAIN s |-> LowerChar(s[i])]

\* str.strip(chars): leading and trailing characters of the set removed.
RECURSIVE LStrip(_, _)
LStrip(s, chars) ==
    IF s # <<>> /\ Head(s) \in chars THEN LStrip(Tail(s), chars) ELSE s

RECURSIVE RStrip(_, _)
RStrip(s, chars) ==
    IF s # <<>> /\ s[Len(s)] \in chars
    THEN RStrip(SubSeq(s, 1, Len(s) - 1), chars) ELSE s

Strip(s, chars) == RStrip(LStrip(s, chars), chars)

\* The decimal digits of a natural number, and the number of a digit string.
RECURSIVE FormatNat(_)
FormatNat(n) ==
    IF n < 10 THEN <<DigitChars[n + 1]>>
    ELSE Append(FormatNat(n \div 10), DigitChars[(n % 10) + 1])

FormatInt(n) == IF n < 0 THEN <<"-">> \o FormatNat(0 - n) ELSE FormatNat(n)

RECURSIVE ParseNat(_)
ParseNat(s) ==
    IF s = <<>> THEN 0
    ELSE 10 * ParseNat(SubSeq(s, 1, Len(s) - 1)) + DigitValue(s[Len(s)])

AllDigits(s) == s # <<>> /\ \A i \in DOMAIN s : IsDigit(s[i])

\* A numeral's sign and what follows it.
Sign(s) == IF s # <<>> /\ Head(s) = "-" THEN -1 ELSE 1
Unsigned(s) == IF s # <<>> /\ Head(s) \in {"-", "+"} THEN Tail(s) ELSE s

\* ---------------------------------------------------- request parameters
\* A JSON value as request.get_json() gives it: kind says which of n (the
\* integer, the boolean as 0/1, the float in tenths) and s (the string's
\* characters) is meant. "missing" stands for a body without the key.
Value(kind, n, s) == [kind |-> kind, n |-> n, s |-> s]
IntValue(n) == Value("int", n, <<>>)
FloatValue(tenths) == Value("float", tenths, <<>>)
StrValue(s) == Value("str", 0, s)
BoolValue(b) == Value("bool", IF b THEN 1 ELSE 0, <<>>)
Null == Value("null", 0, <<>>)
Missing == Value("missing", 0, <<>>)
Infinity == Value("inf", 1, <<>>)
NaN == Value("nan", 0, <<>>)

\* What a conversion or a validator gives: exc is None and v the result, or
\* exc names the exception raised and msg what it reports.
Ok(v) == [exc |-> None, v |-> v, msg |-> None]
Raise(exc, msg) == [exc |-> exc, v |-> 0, msg |-> msg]

\* Python's int(x): an int as it is, a bool as 0/1, a float truncated
\* towards zero, a string of optional blanks, sign and digits parsed;
\* OverflowError for an infinity, ValueError for a NaN or another string,
\* TypeError for None.
int(x) ==
    CASE x.kind \in {"int", "bool"} -> Ok(x.n)
      [] x.kind = "float" ->
            Ok(IF x.n >= 0 THEN x.n \div 10 ELSE 0 - ((0 - x.n) \div 10))
      [] x.kind = "str" ->
            LET t == Strip(x.s, {" "}) IN
            IF AllDigits(Unsigned(t))
            THEN Ok(Sign(t) * ParseNat(Unsigned(t)))
            ELSE Raise("ValueError", None)
      [] x.kind = "inf" -> Raise("OverflowError", None)
      [] x.kind = "nan" -> Raise("ValueError", None)
      [] OTHER -> Raise("TypeError", None)

\* The place of the decimal point in a numeral, 0 if there is none.
PointAt(s) ==
    IF \E i \in DOMAIN s : s[i] = "."
    THEN CHOOSE i \in DOMAIN s : s[i] = "." ELSE 0

\* Python's float(x), in tenths; kind "inf" or "nan" for a value that is no
\* finite number. A string is optional blanks, sign, digits and at most one
\* decimal after the point.
float(x) ==
    CASE x.kind \in {"int", "bool"} -> Ok(FloatValue(10 * x.n))
      [] x.kind \in {"float", "inf", "nan"} -> Ok(x)
      [] x.kind = "str" ->
            LET t == Strip(x.s, {" "})
                u == Unsigned(t)
                p == PointAt(u)
                whole == IF p = 0 THEN u ELSE SubSeq(u, 1, p - 1)
                frac == IF p = 0 THEN <<"0">> ELSE SubSeq(u, p + 1, Len(u))
            IN  IF AllDigits(whole) /\ Len(frac) = 1 /\ AllDigits(frac)
                THEN Ok(FloatValue(Sign(t) * (10 * ParseNat(whole) + ParseNat(frac))))
                ELSE Raise("ValueError", None)
      [] OTHER -> Raise("TypeError", None)

\* `not LOW <= x <= HIGH` for a float x and bounds in whole units: true for
\* a NaN and for an infinity.
OutOfRange(x, low, high) ==
    x.kind # "float" \/ x.n < 10 * low \/ x.n > 10 * high

\* ------------------------------------------------ validators (166-236)
VOLUME_MIN == 0
VOLUME_MAX == 150
SEEK_MIN == 0
SEEK_MAX == 86400
SKIP_MIN == -3600
SKIP_MAX == 3600

\* Faulty variant of validate_volume: the range is not checked.
validate_volume_Unbounded(volume) ==
    LET vol == int(volume) IN
    IF vol.exc \in {"TypeError", "ValueError"}
    THEN Raise("ValidationError", "Invalid volume value")
    ELSE vol

\* validate_volume: int(volume) within VOLUME_MIN..VOLUME_MAX, else
\* ValidationError; TypeError and ValueError of the conversion become
\* ValidationError, any other exception passes through.
validate_volume(volume) ==
    LET vol == int(volume) IN
    IF vol.exc \in {"TypeError", "ValueError"}
    THEN Raise("ValidationError", "Invalid volume value")
    ELSE IF vol.exc # None THEN vol
    ELSE IF ~(VOLUME_MIN <= vol.v /\ vol.v <= VOLUME_MAX)
    THEN Raise("ValidationError", "Volume must be between")
    ELSE vol

validate_seek_position(position) ==
    LET pos == float(position) IN
    IF pos.exc \in {"TypeError", "ValueError"}
    THEN Raise("ValidationError", "Invalid seek position")
    ELSE IF pos.exc # None THEN pos
    ELSE IF OutOfRange(pos.v, SEEK_MIN, SEEK_MAX)
    THEN Raise("ValidationError", "Seek position must be between")
    ELSE pos

validate_skip_duration(seconds) ==
    LET skip_ == float(seconds) IN
    IF skip_.exc \in {"TypeError", "ValueError"}
    THEN Raise("ValidationError", "Invalid skip duration")
    ELSE IF skip_.exc # None THEN skip_
    ELSE IF OutOfRange(skip_.v, SKIP_MIN, SKIP_MAX)
    THEN Raise("ValidationError", "Skip duration must be between")
    ELSE skip_

\* validate_hdmi_output: the value must be one of the three selectors.
valid_outputs == {"auto", "HDMI-A-1", "HDMI-A-2"}

validate_hdmi_output(output) ==
    IF output.kind = "str" /\ \E o \in valid_outputs : Str(o) = output.s
    THEN Ok(Name(output.s))
    ELSE Raise("ValidationError", "Invalid HDMI output")

\* ------------------------------------------ validate_filename (202-227)
ALLOWED_EXTENSIONS ==
    {Str(".mp4"), Str(".avi"), Str(".mkv"), Str(".mov"), Str(".wmv"),
     Str(".flv"), Str(".webm"), Str(".m4v"), Str(".mpg"), Str(".mpeg"),
     Str(".3gp"), Str(".ogv")}

\* str.replace(old, new) for single characters.
Replace(s, old, new) == [i \in DOMAIN s |-> IF s[i] = old THEN new ELSE s[i]]

\* The length of the word s begins with (s does not begin with a blank).
RECURSIVE WordLen(_)
WordLen(s) ==
    IF s = <<>> \/ Head(s) = " " THEN 0 ELSE 1 + WordLen(Tail(s))

\* "_".join(s.split()): the words of s, one "_" between two of them.
RECURSIVE JoinWords(_)
JoinWords(s) ==
    LET t == LStrip(s, {" "})
        n == WordLen(t)
        rest == LStrip(SubSeq(t, n + 1, Len(t)), {" "})
    IN  IF t = <<>> THEN <<>>
        ELSE IF rest = <<>> THEN SubSeq(t, 1, n)
        ELSE SubSeq(t, 1, n) \o <<"_">> \o JoinWords(rest)

\* A character of [A-Za-z0-9_.-].
SafeChar(c) ==
    c \in Range(UpperChars) \cup Range(LowerChars) \cup Range(DigitChars)
          \cup {"_", ".", "-"}

\* werkzeug's secure_filename (called at line 208): path separators become
\* blanks, the words are joined with "_", every character outside
\* [A-Za-z0-9_.-] is dropped, and dots and underscores at both ends go.
secure_filename(filename) ==
    Strip(SelectSeq(JoinWords(Replace(filename, "/", " ")), SafeChar),
          {".", "_"})

\* Path(name).suffix: from the last dot on, if that dot is neither the first
\* nor the last character.
suffix(name) ==
    LET dots == {i \in DOMAIN name : name[i] = "."} IN
    IF dots = {} THEN <<>>
    ELSE LET i == CHOOSE j \in dots : \A k \in dots : k <= j IN
         IF 1 < i /\ i < Len(name) THEN SubSeq(name, i, Len(name)) ELSE <<>>

\* Symbolic links in the media directory, with the paths they point to.
Symlinks == (<<"media", "l.mp4">> :> <<"srv", "l.mp4">>)

\* Path.resolve(): a symbolic link is followed.
resolve(path) == IF path \in DOMAIN Symlinks THEN Symlinks[path] ELSE path

\* full_path.relative_to(media_dir.resolve()) does not raise.
relative_to(path, dir) ==
    Len(path) >= Len(dir) /\ SubSeq(path, 1, Len(dir)) = dir

\* validate_filename: the sanitised name must be non-empty and have an
\* allowed extension, and the resolved path must lie in the media directory.
validate_filename(filename) ==
    LET safe_name == secure_filename(filename) IN
    IF filename = <<>>
    THEN Raise("ValidationError", "Filename cannot be empty")
    ELSE IF safe_name = <<>>
    THEN Raise("ValidationError", "Invalid filename")
    ELSE IF Lower(suffix(safe_name)) \notin ALLOWED_EXTENSIONS
    THEN Raise("ValidationError", "File type not allowed")
    ELSE LET full_path == resolve(Append(media_dir, Name(safe_name))) IN
         IF ~relative_to(full_path, media_dir)
         THEN Raise("ValidationError", "Path traversal attempt detected")
         ELSE Ok(full_path)

\* handle_errors (268-280): the status a raised exception is answered with.
handle_errors(exc) == IF exc = "ValidationError" THEN 400 ELSE 500

\* --------------------------------------------------- Config (100-156)
\* DEFAULT_CONFIG, for the keys the model follows.
DEFAULT_CONFIG ==
    ("volume" :> IntValue(100)) @@
    ("hdmi_output" :> StrValue(Str("auto"))) @@
    ("port" :> IntValue(5000)) @@
    ("loop" :> BoolValue(FALSE))

ConfigKeys == DOMAIN DEFAULT_CONFIG

\* Faulty variant of dumps: a string is written without its quotes.
dumps_Unquoted(x) ==
    CASE x.kind = "int" -> FormatInt(x.n)
      [] x.kind = "float" ->
            (IF x.n < 0 THEN <<"-">> ELSE <<>>) \o
            LET a == IF x.n < 0 THEN 0 - x.n ELSE x.n IN
            FormatNat(a \div 10) \o <<".">> \o FormatNat(a % 10)
      [] x.kind = "str" -> x.s
      [] x.kind = "bool" ->
            IF x.n = 1 THEN <<"t", "r", "u", "e">>
            ELSE <<"f", "a", "l", "s", "e">>
      [] x.kind = "inf" -> <<"I", "n", "f", "i", "n", "i", "t", "y">>
      [] x.kind = "nan" -> <<"N", "a", "N">>
      [] OTHER -> <<"n", "u", "l", "l">>

\* json.dump of one value: the characters written (the strings followed
\* hold no character that is escaped).
dumps(x) ==
    CASE x.kind = "int" -> FormatInt(x.n)
      [] x.kind = "float" ->
            (IF x.n < 0 THEN <<"-">> ELSE <<>>) \o
            LET a == IF x.n < 0 THEN 0 - x.n ELSE x.n IN
            FormatNat(a \div 10) \o <<".">> \o FormatNat(a % 10)
      [] x.kind = "str" -> <<"\"">> \o x.s \o <<"\"">>
      [] x.kind = "bool" ->
            IF x.n = 1 THEN <<"t", "r", "u", "e">>
            ELSE <<"f", "a", "l", "s", "e">>
      [] x.kind = "inf" -> <<"I", "n", "f", "i", "n", "i", "t", "y">>
      [] x.kind = "nan" -> <<"N", "a", "N">>
      [] OTHER -> <<"n", "u", "l", "l">>

\* json.load of one value: the value the characters denote; kind "error"
\* when they denote none (json.load raises).
loads(text) ==
    LET u == Unsigned(text)
        p == PointAt(u)
    IN  CASE Len(text) >= 2 /\ Head(text) = "\"" /\ text[Len(text)] = "\"" ->
                StrValue(SubSeq(text, 2, Len(text) - 1))
          [] text = <<"t", "r", "u", "e">> -> BoolValue(TRUE)
          [] text = <<"f", "a", "l", "s", "e">> -> BoolValue(FALSE)
          [] text = <<"n", "u", "l", "l">> -> Null
          [] text = <<"I", "n", "f", "i", "n", "i", "t", "y">> -> Infinity
          [] text = <<"N", "a", "N">> -> NaN
          [] AllDigits(u) /\ Sign(text) = 1 /\ u = text -> IntValue(ParseNat(u))
          [] AllDigits(u) /\ Head(text) = "-" -> IntValue(0 - ParseNat(u))
          [] p > 1 /\ AllDigits(SubSeq(u, 1, p - 1))
                   /\ Len(u) = p + 1 /\ IsDigit(u[p + 1])
                   /\ (u = text \/ Head(text) = "-") ->
                FloatValue(Sign(text) * (10 * ParseNat(SubSeq(u, 1, p - 1))
                                         + DigitValue(u[p + 1])))
          [] OTHER -> Value("error", 0, <<>>)

\* The file at config_path: whether it exists, whether it is one JSON
\* object, and the text of the value of each key it holds.
NoText == [k \in {} |-> <<>>]
NoFile == [exists |-> FALSE, valid |-> FALSE, text |-> NoText]
Garbage == [exists |-> TRUE, valid |-> FALSE, text |-> NoText]
FileOf(config) ==
    [exists |-> TRUE, valid |-> TRUE,
     text |-> [k \in DOMAIN config |-> dumps(config[k])]]

\* What can become of a write of the file: written; open() fails and the
\* file is as before; or the write breaks off after open() truncated it.
SaveOutcomes == {"saved", "open failed", "write failed"}

\* A Config object and its file.
Cfg(config, file) == [config |-> config, file |-> file]

\* save_config: [ret, file].
save_config(config, file, outcome) ==
    CASE outcome = "saved" -> [ret |-> "true", file |-> FileOf(config)]
      [] outcome = "open failed" -> [ret |-> "false", file |-> file]
      [] OTHER -> [ret |-> "false", file |-> Garbage]

\* The dictionary json.load gives for a file that parses.
Parsed(file) == [k \in DOMAIN file.text |-> loads(file.text[k])]

Parses(file) ==
    file.valid /\ \A k \in DOMAIN file.text : loads(file.text[k]).kind # "error"

\* load_config: the file's values over the defaults; the defaults (written
\* to a new file) when there is no file; the defaults when reading fails.
load_config(file, outcome) ==
    IF ~file.exists
    THEN Cfg(DEFAULT_CONFIG, save_config(DEFAULT_CONFIG, file, outcome).file)
    ELSE IF ~Parses(file) THEN Cfg(DEFAULT_CONFIG, file)
    ELSE Cfg([k \in ConfigKeys \cup DOMAIN file.text |->
                 IF k \in DOMAIN file.text THEN Parsed(file)[k]
                 ELSE DEFAULT_CONFIG[k]], file)

\* Config.get(key)
get(config, key) == config[key]

\* Config.set(key, value): [ret, config, file].
set(config, file, key, value, outcome) ==
    LET c == [k \in DOMAIN config \cup {key} |->
                 IF k = key THEN value ELSE config[k]]
        s == save_config(c, file, outcome)
    IN  [ret |-> s.ret, config |-> c, file |-> s.file]

\* ================================================================ state
VARIABLES
    state,             \* self.state
    process,           \* self.process: 0 is None, else a slot of procs
    current_file,      \* self.current_file
    current_position,  \* self.current_position
    duration,          \* self.duration
    volume,            \* self.volume
    hdmi_output,       \* self.hdmi_output
    procs,             \* the children: slot -> [st, paused, pos, bound]
    sock,              \* the socket file: 0 absent, else the slot that bound it
    th,                \* the calling threads: thread -> its frame
    app                \* the front end: config.config, the file at
                       \* config_path, the files in the media directory,
                       \* and the last Config.set with its result

vars == <<state, process, current_file, current_position, duration, volume,
          hdmi_output, procs, sock, th, app>>

Threads == DOMAIN th
AllThreads == 1..NThreads

\* A child slot. st: "free" (no such process), "alive", "exited" (dead, not
\* yet waited for). A child that was sent SIGKILL runs no more code: its slot
\* is free from then on, whether or not the wait that follows sees it go.
\* connector and file are the --drm-connector value and the media path of
\* the command line the child was started with.
FreeProc ==
    [st |-> "free", paused |-> FALSE, pos |-> 0, bound |-> FALSE,
     connector |-> "", file |-> <<>>]

\* Popen.poll() is None: the child has not exited.
PollIsNone(ps, p) == ps[p].st = "alive"

\* A thread's frame. ipc is the log of the IPC connections opened by the
\* operation in progress (or the last one, when idle); snap is the dictionary
\* get_status returns; state0 is self.state as the operation found it; prev
\* summarises the thread's previous operation; budget is the number of
\* requests the thread may still serve (-1: any number).
NoSnap == [state |-> None, current_file |-> None, position |-> 0,
           duration |-> 0, volume |-> 0, is_paused |-> None]

NoPrev == [op |-> None, ret |-> None, state0 |-> None, is_paused |-> None]

IdleFrame ==
    [pc |-> "idle", op |-> None, stack |-> <<>>, rv |-> None, ret |-> None,
     path |-> <<>>, num |-> 0, attempt |-> 0, is_paused |-> None,
     success |-> None, current_pos |-> 0, ipc |-> <<>>, snap |-> NoSnap,
     state0 |-> None, prev |-> NoPrev, budget |-> -1, output |-> None,
     hdmi_success |-> None, chunks |-> 0,
     api |-> None, req |-> Missing, http |-> 0, error |-> None]

\* The world one step works on: the controller's fields, the children, the
\* socket file and the frame of the thread taking the step.
World(t) ==
    [state |-> state, process |-> process, current_file |-> current_file,
     current_position |-> current_position, duration |-> duration,
     volume |-> volume, hdmi_output |-> hdmi_output,
     procs |-> procs, sock |-> sock, me |-> th[t], app |-> app]

Commit(t, w) ==
    /\ state' = w.state
    /\ process' = w.process
    /\ current_file' = w.current_file
    /\ current_position' = w.current_position
    /\ duration' = w.duration
    /\ volume' = w.volume
    /\ hdmi_output' = w.hdmi_output
    /\ procs' = w.procs
    /\ sock' = w.sock
    /\ th' = [th EXCEPT ![t] = w.me]
    /\ app' = w.app

\* ------------------------------------------------------- frames and calls
\* What a new operation remembers of the one before it: kept where two calls
\* in succession are compared (stop after stop or play, pause after pause).
Remembers(op, before) ==
    \/ op = "stop" /\ before \in {"stop", "play"}
    \/ op = "pause" /\ before = "pause"

\* A thread starts operation op: a fresh frame that remembers the state as
\* found and, where needed, the previous operation.
Enter(w, op) ==
    [w EXCEPT !.me =
        [IdleFrame EXCEPT
            !.op = op,
            !.state0 = w.state,
            !.budget = IF w.me.budget > 0 THEN w.me.budget - 1 ELSE w.me.budget,
            !.prev = IF Remembers(op, w.me.op)
                     THEN [op |-> w.me.op, ret |-> w.me.ret,
                           state0 |-> w.me.state0,
                           is_paused |-> w.me.is_paused]
                     ELSE NoPrev]]

Goto(w, label) == [w EXCEPT !.me.pc = label]

\* A method returns v: to the label its caller waits at, or to the front end.
Return(w, v) ==
    IF w.me.stack = <<>>
    THEN [w EXCEPT !.me.pc = "idle", !.me.ret = v, !.me.rv = None,
                   !.me.success = None, !.me.current_pos = 0,
                   !.me.hdmi_success = None]
    ELSE [w EXCEPT !.me.pc = Head(w.me.stack),
                   !.me.stack = Tail(w.me.stack),
                   !.me.rv = v]

\* The caller will continue at label when the method it calls returns.
Push(w, label) == [w EXCEPT !.me.stack = <<label>> \o w.me.stack]

\* ------------------------------------------------- teardown (lines 73-102)
\* _cleanup_socket: unlink the socket file if it exists.
CleanupSocket(w) == [w EXCEPT !.sock = 0]

\* Faulty variant of CleanupTail: the handle is not cleared.
CleanupTail_KeepsHandle(w) == CleanupSocket(w)

\* The tail of _cleanup_process: finally self.process = None, then
\* _cleanup_socket().
CleanupTail(w) == CleanupSocket([w EXCEPT !.process = 0])

\* _cleanup_process up to its first blocking point. No handle: only the
\* socket is cleaned. A child that already exited: terminate() does nothing
\* and wait() returns at once. Otherwise SIGTERM is sent and the thread
\* blocks in wait(timeout=5). The thread continues at label kont.
CleanupProcess(w, kont) ==
    IF w.process = 0
    THEN Goto(CleanupSocket(w), kont)
    ELSE IF ~PollIsNone(w.procs, w.process)
    THEN Goto(CleanupTail([w EXCEPT !.procs[w.process] = FreeProc]), kont)
    ELSE Goto(Push(w, kont), "cleanup_wait")

\* _cleanup_process at the end of wait(timeout=5). The handle is read again
\* (self.process.wait): if another thread cleared it the call faults and the
\* fault is absorbed. A child that exited meanwhile is reaped. For a child
\* still there the wait times out: SIGKILL is sent and the thread blocks in
\* wait(timeout=2).
CleanupWaitDone(w) ==
    LET p == w.process IN
    IF p # 0 /\ PollIsNone(w.procs, p)
    THEN Goto([w EXCEPT !.procs[p] = FreeProc], "cleanup_kill")
    ELSE Return(CleanupTail(IF p = 0 THEN w
                            ELSE [w EXCEPT !.procs[p] = FreeProc]), "done")

\* Faulty variant of CleanupKillDone: a wait that times out after the kill
\* leaves the method before its tail.
CleanupKillDone_Escapes(w, reaped) ==
    IF reaped THEN Return(CleanupTail(w), "done") ELSE Return(w, "done")

\* _cleanup_process at the end of wait(timeout=2): the child was reaped, or
\* the wait timed out and that fault is absorbed; either way the tail runs.
CleanupKillDone(w, reaped) == Return(CleanupTail(w), "done")

\* --------------------------------------------------- is_running (537-555)
\* Faulty variant of is_running: a detected death leaves the cached state.
is_running_KeepsState(w) ==
    IF w.process = 0
    THEN [w EXCEPT !.me.rv = "false"]
    ELSE IF ~PollIsNone(w.procs, w.process)
    THEN [CleanupTail([w EXCEPT !.procs[w.process] = FreeProc])
            EXCEPT !.me.rv = "false"]
    ELSE [w EXCEPT !.me.rv = "true"]

\* Faulty variant of is_running: the cached state is set to STOPPED whenever
\* the player is found not running, also when there is no handle.
is_running_ResetsState(w) ==
    IF w.process = 0
    THEN [w EXCEPT !.state = STOPPED, !.me.rv = "false"]
    ELSE IF ~PollIsNone(w.procs, w.process)
    THEN [CleanupTail([w EXCEPT !.procs[w.process] = FreeProc])
            EXCEPT !.state = STOPPED, !.me.rv = "false"]
    ELSE [w EXCEPT !.me.rv = "true"]

\* No handle: false. The child exited: teardown, state STOPPED, false.
\* Otherwise true. The result is left in me.rv.
is_running(w) ==
    IF w.process = 0
    THEN [w EXCEPT !.me.rv = "false"]
    ELSE IF ~PollIsNone(w.procs, w.process)
    THEN [CleanupTail([w EXCEPT !.procs[w.process] = FreeProc])
            EXCEPT !.state = STOPPED, !.me.rv = "false"]
    ELSE [w EXCEPT !.me.rv = "true"]

\* ------------------------------------------------- the IPC client (190-274)
\* _send_command: without the socket file it returns None and opens no
\* connection. Otherwise it connects: a player that is not there refuses, a
\* live one answers with outcome o. Every connection opened is logged.
Response(w, o) ==
    IF w.sock = 0 THEN "none"
    ELSE IF w.procs[w.sock].st # "alive" \/ ~w.procs[w.sock].bound THEN "refused"
    ELSE o

\* What the player does with a command it answers with the success marker.
PlayerApply(pr, cmd, name, val) ==
    CASE cmd = "set_property" /\ name = "pause" -> [pr EXCEPT !.paused = (val = "true")]
      [] cmd = "seek" /\ name = "relative" ->
            [pr EXCEPT !.pos = IF pr.pos + val < 0 THEN 0
                                ELSE IF pr.pos + val > MaxPos THEN MaxPos
                                ELSE pr.pos + val]
      [] cmd = "seek" /\ name = "absolute" ->
            [pr EXCEPT !.pos = IF val > MaxPos THEN MaxPos ELSE val]
      [] OTHER -> pr

\* The data field of the player's reply to get_property.
PlayerProperty(pr, name) ==
    CASE name = "pause" -> IF pr.paused THEN "true" ELSE "false"
      [] name = "time-pos" -> pr.pos
      [] name = "duration" -> MaxPos

\* Faulty variant of _send_command: it connects without looking for the
\* socket file first, and the connection is refused when there is none.
_send_command_NoExistsCheck(w, cmd, name, val, o) ==
    LET r == IF w.sock = 0 THEN "refused" ELSE Response(w, o)
        d == IF r = "ok" /\ cmd = "get_property"
             THEN PlayerProperty(w.procs[w.sock], name) ELSE None
        w1 == [w EXCEPT !.me.ipc = Append(w.me.ipc,
                   [cmd |-> cmd, name |-> name, val |-> val, res |-> r,
                    data |-> d])]
    IN  IF r = "ok"
        THEN [w1 EXCEPT !.procs[w.sock] = PlayerApply(w.procs[w.sock], cmd, name, val)]
        ELSE w1

\* A log entry: the command, the reply's status (res) and its data field.
_send_command(w, cmd, name, val, o) ==
    LET r == Response(w, o) IN
    IF w.sock = 0 THEN w
    ELSE LET d == IF r = "ok" /\ cmd = "get_property"
                  THEN PlayerProperty(w.procs[w.sock], name) ELSE None
             w1 == [w EXCEPT !.me.ipc = Append(w.me.ipc,
                        [cmd |-> cmd, name |-> name, val |-> val, res |-> r,
                         data |-> d])]
         IN  IF r = "ok"
             THEN [w1 EXCEPT !.procs[w.sock] = PlayerApply(w.procs[w.sock], cmd, name, val)]
             ELSE w1

\* Faulty variant of _get_property: the data field of any reply received,
\* whatever its status.
_get_property_AnyStatus(w, name, o) ==
    IF Response(w, o) \in {"ok", "err"}
    THEN [some |-> TRUE, data |-> PlayerProperty(w.procs[w.sock], name)]
    ELSE [some |-> FALSE, data |-> None]

\* _get_property: the data field when the reply's status is the success
\* marker, else None.
\* The result is [some |-> FALSE] for None, else [some |-> TRUE, data |-> v].
_get_property(w, name, o) ==
    IF Response(w, o) = "ok"
    THEN [some |-> TRUE, data |-> PlayerProperty(w.procs[w.sock], name)]
    ELSE [some |-> FALSE, data |-> None]

\* `response and response.get("error") == "success"`: None without a
\* response, else whether the status is the success marker.
Success(r) ==
    CASE r = "ok" -> "true"
      [] r = "err" -> "false"
      [] OTHER -> None

\* Python's `not x` for x in {True, False, None}.
Not(x) == IF x = "true" THEN "false" ELSE "true"

\* ---------------------------------------------------------- stop (391-409)
\* stop() up to the teardown's blocking point.
stop(w) == CleanupProcess(w, "stop_fields")

\* Faulty variant of StopFields: current_position is not reset.
StopFields_KeepsPosition(w) ==
    Return([w EXCEPT !.state = STOPPED, !.current_file = None,
                     !.duration = 0], "true")

\* stop() after the teardown: reset the fields, return True.
StopFields(w) ==
    Return([w EXCEPT !.state = STOPPED, !.current_file = None,
                     !.current_position = 0, !.duration = 0], "true")

\* ---------------------------------------------------------- play (276-337)
\* Faulty variant of play: a running player is not stopped first.
play_NoStop(w, path) ==
    LET w0 == [w EXCEPT !.me.path = path] IN
    IF path \notin w.app.files THEN Return(w0, "false")
    ELSE Goto([w0 EXCEPT !.me.rv = "false"], "play_spawn")

\* Faulty variant of play: is_running() is consulted before the file is
\* looked for.
play_ChecksRunningFirst(w, path) ==
    LET w0 == [w EXCEPT !.me.path = path]
        w1 == is_running(w0)
    IN  IF path \notin w.app.files THEN Return(w1, "false")
        ELSE IF w1.me.rv = "true" THEN stop(Push(w1, "play_spawn"))
        ELSE Goto(w1, "play_spawn")

\* play() up to building the command: a missing file returns False at once;
\* a running player is stopped first.
play(w, path) ==
    LET w0 == [w EXCEPT !.me.path = path] IN
    IF path \notin w.app.files THEN Return(w0, "false")
    ELSE LET w1 == is_running(w0) IN
         IF w1.me.rv = "true" THEN stop(Push(w1, "play_spawn"))
         ELSE Goto(w1, "play_spawn")

FreeSlots(w) == {p \in ProcIds : w.procs[p].st = "free"}

\* _get_mpv_command: --drm-connector is empty for "auto", else the selector.
DrmConnector(output) == IF output # "auto" THEN output ELSE ""

\* subprocess.Popen: the new child, or a fault (ok = FALSE, or no slot left
\* in the process table), which play's handler absorbs: teardown, then ERROR.
PlaySpawn(w, ok) ==
    IF ok /\ FreeSlots(w) # {}
    THEN LET p == CHOOSE q \in FreeSlots(w) : \A r \in FreeSlots(w) : q <= r
         IN  Goto([w EXCEPT !.procs[p] = [FreeProc EXCEPT
                                            !.st = "alive",
                                            !.connector = DrmConnector(w.hdmi_output),
                                            !.file = w.me.path],
                            !.process = p,
                            !.me.attempt = 0], "play_wait")
    ELSE CleanupProcess(w, "play_error")

\* Faulty variant of PlayWait: current_file is not recorded.
PlayWait_NoFileName(w) ==
    IF w.sock # 0
    THEN Goto([w EXCEPT !.state = PLAYING, !.me.attempt = 0], "play_duration")
    ELSE IF w.me.attempt + 1 < max_attempts
    THEN [w EXCEPT !.me.attempt = w.me.attempt + 1]
    ELSE CleanupProcess([w EXCEPT !.me.attempt = w.me.attempt + 1], "play_timeout")

\* Faulty variant of PlayWait: no teardown when the checks run out.
PlayWait_NoTeardown(w) ==
    IF w.sock # 0
    THEN Goto([w EXCEPT !.state = PLAYING,
                        !.current_file = PathName(w.me.path),
                        !.me.attempt = 0], "play_duration")
    ELSE IF w.me.attempt + 1 < max_attempts
    THEN [w EXCEPT !.me.attempt = w.me.attempt + 1]
    ELSE Goto([w EXCEPT !.me.attempt = w.me.attempt + 1], "play_timeout")

\* One readiness check of the loop. The socket file is there: state PLAYING,
\* current_file the path's name, then the settle sleep. It is not: sleep and
\* count; after max_attempts checks, teardown and return False.
PlayWait(w) ==
    IF w.sock # 0
    THEN Goto([w EXCEPT !.state = PLAYING,
                        !.current_file = PathName(w.me.path),
                        !.me.attempt = 0], "play_duration")
    ELSE IF w.me.attempt + 1 < max_attempts
    THEN [w EXCEPT !.me.attempt = w.me.attempt + 1]
    ELSE CleanupProcess([w EXCEPT !.me.attempt = w.me.attempt + 1], "play_timeout")

\* Faulty variant of PlayTimeout: the timeout is reported as state ERROR.
PlayTimeout_SetsError(w) == Return([w EXCEPT !.state = ERROR], "false")

\* The readiness checks ran out and the teardown is done: return False.
PlayTimeout(w) == Return(w, "false")

\* Faulty variant of PlayError: the cached state is left as it was.
PlayError_KeepsState(w) == Return(w, "false")

\* The handler of play() after its teardown: state ERROR, return False.
PlayError(w) == Return([w EXCEPT !.state = ERROR], "false")

\* self.duration = self._get_property("duration") or 0.0; return True
PlayDuration(w, o) ==
    LET d == _get_property(w, "duration", o)
        w1 == _send_command(w, "get_property", "duration", None, o)
    IN  Return([w1 EXCEPT !.duration = IF d.some THEN d.data ELSE 0], "true")

\* --------------------------------------------------------- pause (339-365)
\* Faulty variant of pause: is_running() is not consulted.
pause_Unchecked(w) == Goto(w, "pause_get")

\* pause() up to its first IPC exchange: False when not running.
pause(w) ==
    LET w1 == is_running(w) IN
    IF w1.me.rv = "true" THEN Goto(w1, "pause_get") ELSE Return(w1, "false")

\* is_paused = self._get_property("pause")
PauseGet(w, o) ==
    LET g == _get_property(w, "pause", o)
        w1 == _send_command(w, "get_property", "pause", None, o)
    IN  Goto([w1 EXCEPT !.me.is_paused = IF g.some THEN g.data ELSE None],
             "pause_set")

\* Faulty variant of PauseState: always PAUSED.
PauseState_AlwaysPaused(is_paused) == PAUSED

\* The cached state pause() stores once its set_property succeeded.
PauseState(is_paused) == IF Not(is_paused) = "true" THEN PAUSED ELSE PLAYING

\* success = self._set_property("pause", not is_paused); on success the
\* cached state follows the value written; return success.
PauseSet(w, o) ==
    LET success == Success(Response(w, o))
        w1 == _send_command(w, "set_property", "pause", Not(w.me.is_paused), o)
        w2 == [w1 EXCEPT !.me.success = success]
    IN  IF success = "true"
        THEN Return([w2 EXCEPT !.state = PauseState(w.me.is_paused)], success)
        ELSE Return(w2, success)

\* -------------------------------------------------------- resume (367-389)
resume(w) ==
    LET w1 == is_running(w) IN
    IF w1.me.rv = "true" THEN Goto(w1, "resume_set") ELSE Return(w1, "false")

\* Faulty variant of ResumeSet: the cached state does not follow the write.
ResumeSet_KeepsState(w, o) ==
    LET success == Success(Response(w, o))
        w1 == _send_command(w, "set_property", "pause", "false", o)
    IN  Return([w1 EXCEPT !.me.success = success], success)

\* success = self._set_property("pause", False); on success the cached
\* state is PLAYING; return success.
ResumeSet(w, o) ==
    LET success == Success(Response(w, o))
        w1 == _send_command(w, "set_property", "pause", "false", o)
        w2 == [w1 EXCEPT !.me.success = success]
    IN  IF success = "true"
        THEN Return([w2 EXCEPT !.state = PLAYING], success)
        ELSE Return(w2, success)

\* -------------------------------------------------- skip, seek (411-475)
skip(w, seconds) ==
    LET w1 == is_running([w EXCEPT !.me.num = seconds]) IN
    IF w1.me.rv = "true" THEN Goto(w1, "skip_send") ELSE Return(w1, "false")

seek(w, position) ==
    LET w1 == is_running([w EXCEPT !.me.num = position]) IN
    IF w1.me.rv = "true" THEN Goto(w1, "seek_send") ELSE Return(w1, "false")

\* The seek command of skip (mode "relative") and seek (mode "absolute"): on
\* success the thread sleeps 100 ms and goes on to the audio resync at label
\* reload; otherwise it returns success.
SeekSend(w, mode, reload, o) ==
    LET success == Success(Response(w, o))
        w1 == _send_command(w, "seek", mode, w.me.num, o)
        w2 == [w1 EXCEPT !.me.success = success]
    IN  IF success = "true" THEN Goto(w2, reload) ELSE Return(w2, success)

\* Faulty variant of AoReload: the result of the audio resync is returned.
AoReload_ReturnsReloadResult(w, o) ==
    Return(_send_command(w, "ao-reload", None, None, o),
           Success(Response(w, o)))

\* self._send_command({"command": ["ao-reload"]}); return success
AoReload(w, o) ==
    Return(_send_command(w, "ao-reload", None, None, o), w.me.success)

\* ---------------------------------------------------- set_volume (477-502)
set_volume(w, level) ==
    LET w1 == is_running([w EXCEPT !.me.num = level]) IN
    IF w1.me.rv = "true" THEN Goto(w1, "volume_set") ELSE Return(w1, "false")

\* Faulty variant of VolumeSet: the level is bounded to 150 on the way.
VolumeSet_Clamped(w, o) ==
    LET level == IF w.me.num > 150 THEN 150 ELSE w.me.num
        success == Success(Response(w, o))
        w1 == _send_command(w, "set_property", "volume", level, o)
        w2 == [w1 EXCEPT !.me.success = success]
    IN  IF success = "true"
        THEN Return([w2 EXCEPT !.volume = level], success)
        ELSE Return(w2, success)

\* success = self._set_property("volume", level); on success the cached
\* volume is level; return success.
VolumeSet(w, o) ==
    LET success == Success(Response(w, o))
        w1 == _send_command(w, "set_property", "volume", w.me.num, o)
        w2 == [w1 EXCEPT !.me.success = success]
    IN  IF success = "true"
        THEN Return([w2 EXCEPT !.volume = w.me.num], success)
        ELSE Return(w2, success)

\* ----------------------------------------------- set_hdmi_output (504-535)
\* Faulty variant of set_hdmi_output: the selector is recorded only when the
\* player is restarted.
set_hdmi_output_RecordsOnRestart(w, output) ==
    LET w0 == [w EXCEPT !.me.output = output]
        w1 == is_running(w0)
    IN  IF w1.me.rv = "true" /\ w1.current_file # None
        THEN stop(Push([w1 EXCEPT !.hdmi_output = output,
                                  !.me.current_pos = w1.current_position,
                                  !.me.path = JoinMedia(w1.current_file)],
                       "hdmi_play"))
        ELSE Return(w1, "true")

\* The selector is recorded; a running player with a current file is
\* restarted: position captured, path rebuilt, stop(), then play().
set_hdmi_output(w, output) ==
    LET w0 == [w EXCEPT !.hdmi_output = output, !.me.output = output]
        w1 == is_running(w0)
    IN  IF w1.me.rv = "true" /\ w1.current_file # None
        THEN stop(Push([w1 EXCEPT !.me.current_pos = w1.current_position,
                                  !.me.path = JoinMedia(w1.current_file)],
                       "hdmi_play"))
        ELSE Return(w1, "true")

\* success = self.play(str(file_path))
HdmiPlay(w) == play(Push(w, "hdmi_seek"), w.me.path)

\* Faulty variant of HdmiSeek: the seek is made whatever play returned.
HdmiSeek_IgnoresResult(w) ==
    LET w1 == [w EXCEPT !.me.hdmi_success = w.me.rv] IN
    IF w1.me.current_pos > 0
    THEN seek(Push(w1, "hdmi_return"), w1.me.current_pos)
    ELSE Return(w1, w1.me.hdmi_success)

\* if success and current_pos > 0: self.seek(current_pos); return success
HdmiSeek(w) ==
    LET w1 == [w EXCEPT !.me.hdmi_success = w.me.rv] IN
    IF w1.me.hdmi_success = "true" /\ w1.me.current_pos > 0
    THEN seek(Push(w1, "hdmi_return"), w1.me.current_pos)
    ELSE Return(w1, w1.me.hdmi_success)

\* return success: the result of play(), whatever seek() returned (the
\* success of seek() is a local of seek()).
HdmiReturn(w) == Return(w, w.me.hdmi_success)

\* ---------------------------------------------------- get_status (557-587)
\* Faulty variant of get_status: the dictionary starts from the cached
\* position.
get_status_CachedPosition(w) ==
    LET w0 == [w EXCEPT !.me.snap =
                 [state |-> w.state, current_file |-> w.current_file,
                  position |-> w.current_position, duration |-> w.duration,
                  volume |-> w.volume, is_paused |-> "false"]]
        w1 == is_running(w0)
    IN  IF w1.me.rv = "true" THEN Goto(w1, "status_pos") ELSE Return(w1, "status")

\* The dictionary is built from the cached fields, with position 0.0 and
\* is_paused False; then is_running() decides whether the player is polled.
get_status(w) ==
    LET w0 == [w EXCEPT !.me.snap =
                 [state |-> w.state, current_file |-> w.current_file,
                  position |-> 0, duration |-> w.duration,
                  volume |-> w.volume, is_paused |-> "false"]]
        w1 == is_running(w0)
    IN  IF w1.me.rv = "true" THEN Goto(w1, "status_pos") ELSE Return(w1, "status")

\* pos = self._get_property("time-pos"); stored when it is not None.
StatusPos(w, o) ==
    LET g == _get_property(w, "time-pos", o)
        w1 == _send_command(w, "get_property", "time-pos", None, o)
    IN  Goto(IF g.some
             THEN [w1 EXCEPT !.current_position = g.data,
                             !.me.snap.position = g.data]
             ELSE w1, "status_pause")

\* Faulty variant of StatusPause: the cached state is set from the poll even
\* when the poll gave no data.
StatusPause_Unconditional(w, o) ==
    LET g == _get_property(w, "pause", o)
        w1 == _send_command(w, "get_property", "pause", None, o)
        st == IF g.data = "true" THEN PAUSED ELSE PLAYING
    IN  Return(IF g.some
               THEN [w1 EXCEPT !.state = st,
                               !.me.snap.is_paused = g.data,
                               !.me.snap.state = st]
               ELSE [w1 EXCEPT !.state = st], "status")

\* is_paused = self._get_property("pause"); when it is not None the cached
\* state and the dictionary follow it.
StatusPause(w, o) ==
    LET g == _get_property(w, "pause", o)
        w1 == _send_command(w, "get_property", "pause", None, o)
        st == IF g.data = "true" THEN PAUSED ELSE PLAYING
    IN  Return(IF g.some
               THEN [w1 EXCEPT !.state = st,
                               !.me.snap.is_paused = g.data,
                               !.me.snap.state = st]
               ELSE w1, "status")

\* ------------------------------------------------------------- the player
\* A started child binds the socket path (replacing any file there).
SocketCreate(p) ==
    /\ procs[p].st = "alive" /\ ~procs[p].bound
    /\ procs' = [procs EXCEPT ![p].bound = TRUE]
    /\ sock' = p
    /\ UNCHANGED <<state, process, current_file, current_position, duration,
                   volume, hdmi_output, th, app>>

\* A child exits on its own or after SIGTERM. A graceful exit removes the
\* socket file it bound (keep = FALSE); a crash leaves it (keep = TRUE).
ProcessExit(p, keep) ==
    /\ procs[p].st = "alive"
    /\ procs' = [procs EXCEPT ![p] =
                    IF process = p THEN [FreeProc EXCEPT !.st = "exited"]
                    ELSE FreeProc]
    /\ sock' = IF sock = p /\ ~keep THEN 0 ELSE sock
    /\ UNCHANGED <<state, process, current_file, current_position, duration,
                   volume, hdmi_output, th, app>>

\* Playback advances while the player is not paused.
Tick(p) ==
    /\ procs[p].st = "alive" /\ procs[p].bound
    /\ ~procs[p].paused /\ procs[p].pos < MaxPos
    /\ procs' = [procs EXCEPT ![p].pos = @ + 1]
    /\ UNCHANGED <<state, process, current_file, current_position, duration,
                   volume, hdmi_output, sock, th, app>>

\* --keep-open=yes: at the end of the file the player pauses itself.
PlayerEOF(p) ==
    /\ procs[p].st = "alive" /\ procs[p].bound
    /\ ~procs[p].paused /\ procs[p].pos = MaxPos
    /\ procs' = [procs EXCEPT ![p].paused = TRUE]
    /\ UNCHANGED <<state, process, current_file, current_position, duration,
                   volume, hdmi_output, sock, th, app>>

\* ------------------------------------------------------------ the actions
At(t, label) == t \in Threads /\ th[t].pc = label

\* Thread t is free to take a request.
Idle(t) == At(t, "idle") /\ th[t].budget # 0

StopCall(t) == Idle(t) /\ Commit(t, stop(Enter(World(t), "stop")))

StopFieldsStep(t) == At(t, "stop_fields") /\ Commit(t, StopFields(World(t)))

CleanupWaitStep(t) ==
    At(t, "cleanup_wait") /\ Commit(t, CleanupWaitDone(World(t)))

CleanupKillStep(t) ==
    At(t, "cleanup_kill") /\ \E reaped \in BOOLEAN :
        Commit(t, CleanupKillDone(World(t), reaped))

PauseCall(t) == Idle(t) /\ Commit(t, pause(Enter(World(t), "pause")))

PauseGetStep(t) ==
    At(t, "pause_get") /\ \E o \in Outcomes : Commit(t, PauseGet(World(t), o))

PauseSetStep(t) ==
    At(t, "pause_set") /\ \E o \in Outcomes : Commit(t, PauseSet(World(t), o))

ResumeCall(t) == Idle(t) /\ Commit(t, resume(Enter(World(t), "resume")))

ResumeSetStep(t) ==
    At(t, "resume_set") /\ \E o \in Outcomes : Commit(t, ResumeSet(World(t), o))

SkipCall(t) ==
    Idle(t) /\ \E s \in SkipAmounts : Commit(t, skip(Enter(World(t), "skip"), s))

SkipSendStep(t) ==
    At(t, "skip_send") /\ \E o \in Outcomes :
        Commit(t, SeekSend(World(t), "relative", "skip_reload", o))

SkipReloadStep(t) ==
    At(t, "skip_reload") /\ \E o \in Outcomes : Commit(t, AoReload(World(t), o))

SeekCall(t) ==
    Idle(t) /\ \E s \in SeekPositions : Commit(t, seek(Enter(World(t), "seek"), s))

SeekSendStep(t) ==
    At(t, "seek_send") /\ \E o \in Outcomes :
        Commit(t, SeekSend(World(t), "absolute", "seek_reload", o))

SeekReloadStep(t) ==
    At(t, "seek_reload") /\ \E o \in Outcomes : Commit(t, AoReload(World(t), o))

SetVolumeCall(t) ==
    Idle(t) /\ \E level \in Levels :
        Commit(t, set_volume(Enter(World(t), "set_volume"), level))

VolumeSetStep(t) ==
    At(t, "volume_set") /\ \E o \in Outcomes : Commit(t, VolumeSet(World(t), o))

SetHdmiOutputCall(t) ==
    Idle(t) /\ \E output \in Outputs :
        Commit(t, set_hdmi_output(Enter(World(t), "set_hdmi_output"), output))

HdmiPlayStep(t) == At(t, "hdmi_play") /\ Commit(t, HdmiPlay(World(t)))

HdmiSeekStep(t) == At(t, "hdmi_seek") /\ Commit(t, HdmiSeek(World(t)))

HdmiReturnStep(t) == At(t, "hdmi_return") /\ Commit(t, HdmiReturn(World(t)))

GetStatusCall(t) ==
    Idle(t) /\ Commit(t, get_status(Enter(World(t), "get_status")))

StatusPosStep(t) ==
    At(t, "status_pos") /\ \E o \in Outcomes : Commit(t, StatusPos(World(t), o))

StatusPauseStep(t) ==
    At(t, "status_pause") /\ \E o \in Outcomes : Commit(t, StatusPause(World(t), o))

IsRunningCall(t) ==
    Idle(t) /\
    LET w == is_running(Enter(World(t), "is_running")) IN Commit(t, Return(w, w.me.rv))

PlayCall(t) ==
    Idle(t) /\ \E path \in Paths : Commit(t, play(Enter(World(t), "play"), path))

PlaySpawnStep(t) ==
    At(t, "play_spawn") /\ \E ok \in BOOLEAN : Commit(t, PlaySpawn(World(t), ok))

PlayWaitStep(t) == At(t, "play_wait") /\ Commit(t, PlayWait(World(t)))

PlayTimeoutStep(t) == At(t, "play_timeout") /\ Commit(t, PlayTimeout(World(t)))

PlayErrorStep(t) == At(t, "play_error") /\ Commit(t, PlayError(World(t)))

PlayDurationStep(t) ==
    At(t, "play_duration") /\ \E o \in Outcomes : Commit(t, PlayDuration(World(t), o))

Step(t) ==
    \/ StopCall(t) \/ StopFieldsStep(t) \/ CleanupWaitStep(t)
    \/ CleanupKillStep(t)
    \/ IsRunningCall(t)
    \/ PlayCall(t) \/ PlaySpawnStep(t) \/ PlayWaitStep(t) \/ PlayTimeoutStep(t)
    \/ PlayErrorStep(t) \/ PlayDurationStep(t)
    \/ PauseCall(t) \/ PauseGetStep(t) \/ PauseSetStep(t)
    \/ ResumeCall(t) \/ ResumeSetStep(t)
    \/ SkipCall(t) \/ SkipSendStep(t) \/ SkipReloadStep(t)
    \/ SeekCall(t) \/ SeekSendStep(t) \/ SeekReloadStep(t)
    \/ SetVolumeCall(t) \/ VolumeSetStep(t)
    \/ SetHdmiOutputCall(t) \/ HdmiPlayStep(t) \/ HdmiSeekStep(t)
    \/ HdmiReturnStep(t)
    \/ GetStatusCall(t) \/ StatusPosStep(t) \/ StatusPauseStep(t)

Player(p) ==
    \/ SocketCreate(p)
    \/ \E keep \in BOOLEAN : ProcessExit(p, keep)
    \/ Tick(p)
    \/ PlayerEOF(p)

\* The front end as started with no file at config_path: the defaults, in
\* memory and written to the file; the media directory with its files.
NoSet == [key |-> None, value |-> Null, ret |-> None]

InitApp ==
    [config |-> DEFAULT_CONFIG, config_file |-> FileOf(DEFAULT_CONFIG),
     files |-> ExistingPaths, last |-> NoSet]

\* The controller as constructed (lines 51-69): STOPPED, no handle, no file,
\* volume 100, the socket file of an earlier run removed.
InitCtl ==
    /\ state = STOPPED
    /\ process = 0
    /\ current_file = None
    /\ current_position = 0
    /\ duration = 0
    /\ volume = DefaultVolume
    /\ hdmi_output = "auto"
    /\ procs = [p \in ProcIds |-> FreeProc]
    /\ sock = 0
    /\ app = InitApp

Init == InitCtl /\ th = [t \in {1} |-> IdleFrame]

InitConc ==
    InitCtl /\ th = [t \in 1..NThreads |-> [IdleFrame EXCEPT !.budget = MaxCalls]]

Next == (\E t \in AllThreads : Step(t)) \/ (\E p \in ProcIds : Player(p))

Spec == Init /\ [][Next]_vars

\* ------------------------------------------- construction (lines 51-69)
\* Before the controller exists: no fields yet, no thread serving requests,
\* and at the socket path either nothing or a file left by an earlier run
\* (a file bound by no child of this run).
InitBoot ==
    /\ state = None /\ current_file = None /\ hdmi_output = None
    /\ process = 0 /\ current_position = 0 /\ duration = 0 /\ volume = 0
    /\ procs = [p \in ProcIds |-> FreeProc]
    /\ sock \in {0} \cup ProcIds
    /\ th = <<>>
    /\ app = InitApp

\* Faulty variant of __init__: the socket file of an earlier run is left.
__init___KeepsSocket(w, output) ==
    [w EXCEPT !.hdmi_output = output, !.process = 0, !.state = STOPPED,
              !.current_file = None, !.current_position = 0,
              !.duration = 0, !.volume = DefaultVolume]

\* __init__: the fields at their initial values, then _cleanup_socket().
__init__(w, output) ==
    CleanupSocket([w EXCEPT !.hdmi_output = output, !.process = 0,
                            !.state = STOPPED, !.current_file = None,
                            !.current_position = 0, !.duration = 0,
                            !.volume = DefaultVolume])

\* The controller is constructed (hdmi_output at its default) and the front
\* end begins to serve requests.
Construct ==
    /\ th = <<>>
    /\ LET w == __init__([state |-> state, process |-> process,
                          current_file |-> current_file,
                          current_position |-> current_position,
                          duration |-> duration, volume |-> volume,
                          hdmi_output |-> hdmi_output, procs |-> procs,
                          sock |-> sock, me |-> IdleFrame, app |-> app],
                         "auto")
       IN  /\ state' = w.state
           /\ process' = w.process
           /\ current_file' = w.current_file
           /\ current_position' = w.current_position
           /\ duration' = w.duration
           /\ volume' = w.volume
           /\ hdmi_output' = w.hdmi_output
           /\ procs' = w.procs
           /\ sock' = w.sock
           /\ th' = [t \in {1} |-> w.me]
           /\ app' = w.app

NextBoot == Construct \/ Next

SpecBoot == InitBoot /\ [][NextBoot]_vars

\* ------------------------------------------------------------- progress
\* The places of the methods where one IPC exchange is made.
IpcLabels ==
    {"pause_get", "pause_set", "resume_set", "skip_send", "skip_reload",
     "seek_send", "seek_reload", "volume_set", "status_pos", "status_pause",
     "play_duration"}

\* The requests of one run are capped at LiveCalls.
InitLive == InitCtl /\ th = [t \in {1} |-> [IdleFrame EXCEPT !.budget = LiveCalls]]

\* The receive loop of _send_command (lines 214-221): a recv() that brings
\* a chunk without a newline appends it and goes round again, each recv()
\* with a new 2 s timeout. The chunks of one operation are counted modulo 2.
RecvChunk(t) ==
    /\ t \in Threads /\ th[t].pc \in IpcLabels
    /\ sock # 0 /\ procs[sock].st = "alive" /\ procs[sock].bound
    /\ th' = [th EXCEPT ![t].chunks = 1 - @]
    /\ UNCHANGED <<state, process, current_file, current_position, duration,
                   volume, hdmi_output, procs, sock, app>>

\* A thread inside an operation is never held back: every call it blocks in
\* (sleep(0.1), wait(timeout=5), wait(timeout=2), each call on the socket
\* with settimeout(2.0)) returns by itself, so its next step comes.
Advance(t) == t \in Threads /\ th[t].pc # "idle" /\ (Step(t) \/ RecvChunk(t))

NextLive == Next \/ (\E t \in AllThreads : RecvChunk(t))

SpecLive ==
    InitLive /\ [][NextLive]_vars /\ \A t \in AllThreads : WF_vars(Advance(t))

\* ------------------------------------------------- the Config object alone
\* What may be at config_path when the front end starts: nothing, a file
\* that is no JSON, a file holding one key only, a file written earlier.
InitialFiles ==
    {NoFile, Garbage,
     [exists |-> TRUE, valid |-> TRUE, text |-> ("volume" :> <<"5", "0">>)],
     FileOf(DEFAULT_CONFIG)}

\* The keys and values handed to Config.set.
SetKeys == {"volume", "hdmi_output"}
ConfigValues == {IntValue(75), StrValue(<<"7", "5">>), StrValue(Str("HDMI-A-1"))}

\* config = Config(), before the controller exists.
InitConfig ==
    /\ state = None /\ current_file = None /\ hdmi_output = None
    /\ process = 0 /\ current_position = 0 /\ duration = 0 /\ volume = 0
    /\ procs = [p \in ProcIds |-> FreeProc]
    /\ sock = 0
    /\ th = <<>>
    /\ \E file \in InitialFiles, outcome \in SaveOutcomes :
          LET c == load_config(file, outcome) IN
          app = [InitApp EXCEPT !.config = c.config, !.config_file = c.file]

\* config.set(key, value)
ConfigSet ==
    /\ \E key \in SetKeys, value \in ConfigValues, outcome \in SaveOutcomes :
          LET r == set(app.config, app.config_file, key, value, outcome) IN
          app' = [app EXCEPT !.config = r.config, !.config_file = r.file,
                             !.last = [key |-> key, value |-> value,
                                       ret |-> r.ret]]
    /\ UNCHANGED <<state, process, current_file, current_position, duration,
                   volume, hdmi_output, procs, sock, th>>

\* A new Config is made from the file (the front end is started again).
ConfigLoad ==
    /\ \E outcome \in SaveOutcomes :
          LET c == load_config(app.config_file, outcome) IN
          app' = [app EXCEPT !.config = c.config, !.config_file = c.file]
    /\ UNCHANGED <<state, process, current_file, current_position, duration,
                   volume, hdmi_output, procs, sock, th>>

NextConfig == ConfigSet \/ ConfigLoad

SpecConfig == InitConfig /\ [][NextConfig]_vars

\* ------------------------------------------- the endpoints (300-537)
\* A request enters endpoint api with parameter req and calls operation op.
EnterApi(w, api, req, op) ==
    LET w1 == Enter(w, op) IN [w1 EXCEPT !.me.api = api, !.me.req = req]

\* The request is answered with status code without a controller call.
Reject(w, api, req, code, error) ==
    LET w1 == EnterApi(w, api, req, None) IN
    [w1 EXCEPT !.me.http = code, !.me.error = error]

\* handle_errors: the answer to a raised exception.
Raised(w, api, req, r) == Reject(w, api, req, handle_errors(r.exc), r.msg)

\* The endpoint calls another operation in the same request.
Call(w, op) == [w EXCEPT !.me.op = op, !.me.state0 = w.state]

\* return jsonify(...): the request is answered.
Respond(w, code) == [Return(w, w.me.rv) EXCEPT !.me.http = code]

\* The model's player counts whole seconds.
Seconds(x) == x.n \div 10

\* play (300-324): without a file name, resume(); else the validated file
\* must exist (404), and is played.
api_play(w, filename) ==
    IF filename = <<>>
    THEN resume(Push(EnterApi(w, "play", filename, "resume"), "api_done"))
    ELSE LET file_path == validate_filename(filename) IN
         IF file_path.exc # None THEN Raised(w, "play", filename, file_path)
         ELSE IF file_path.v \notin w.app.files
         THEN Reject(w, "play", filename, 404, "File not found")
         ELSE play(Push(EnterApi(w, "play", filename, "play"), "api_done"),
                   file_path.v)

\* skip (342-354)
api_skip(w, seconds) ==
    IF seconds.kind = "missing"
    THEN Reject(w, "skip", seconds, 400, "Missing 'seconds' parameter")
    ELSE LET s == validate_skip_duration(seconds) IN
         IF s.exc # None THEN Raised(w, "skip", seconds, s)
         ELSE skip(Push(EnterApi(w, "skip", seconds, "skip"), "api_done"),
                   Seconds(s.v))

\* seek (356-368)
api_seek(w, position) ==
    IF position.kind = "missing"
    THEN Reject(w, "seek", position, 400, "Missing 'position' parameter")
    ELSE LET pos == validate_seek_position(position) IN
         IF pos.exc # None THEN Raised(w, "seek", position, pos)
         ELSE seek(Push(EnterApi(w, "seek", position, "seek"), "api_done"),
                   Seconds(pos.v))

\* volume (370-385), up to the return of set_volume.
api_volume(w, level) ==
    IF level.kind = "missing"
    THEN Reject(w, "volume", level, 400, "Missing 'level' parameter")
    ELSE LET l == validate_volume(level) IN
         IF l.exc # None THEN Raised(w, "volume", level, l)
         ELSE set_volume(Push(EnterApi(w, "volume", level, "set_volume"),
                              "api_volume"), l.v)

\* config.set(key, value) by a request.
ConfigSetBy(w, key, value, outcome) ==
    LET r == set(w.app.config, w.app.config_file, key, value, outcome) IN
    [w EXCEPT !.app.config = r.config, !.app.config_file = r.file,
              !.app.last = [key |-> key, value |-> value, ret |-> r.ret]]

\* if success: config.set('volume', level)
ApiVolumeDone(w, outcome) ==
    Respond(IF w.me.rv = "true"
            THEN ConfigSetBy(w, "volume", IntValue(w.me.num), outcome)
            ELSE w, 200)

\* hdmi (387-402), up to the return of set_hdmi_output.
api_hdmi(w, output) ==
    IF output.kind = "missing"
    THEN Reject(w, "hdmi", output, 400, "Missing 'output' parameter")
    ELSE LET o == validate_hdmi_output(output) IN
         IF o.exc # None THEN Raised(w, "hdmi", output, o)
         ELSE set_hdmi_output(Push(EnterApi(w, "hdmi", output,
                                            "set_hdmi_output"), "api_hdmi"),
                              o.v)

\* if success: config.set('hdmi_output', output)
ApiHdmiDone(w, outcome) ==
    Respond(IF w.me.rv = "true"
            THEN ConfigSetBy(w, "hdmi_output", StrValue(Str(w.me.output)),
                             outcome)
            ELSE w, 200)

\* status (408-413)
api_status(w) ==
    get_status(Push(EnterApi(w, "status", Missing, "get_status"), "api_done"))

\* delete_file (514-524): the validated file must exist (404); then the
\* status is asked for.
delete_file(w, filename) ==
    LET file_path == validate_filename(filename) IN
    IF file_path.exc # None THEN Raised(w, "delete", filename, file_path)
    ELSE IF file_path.v \notin w.app.files
    THEN Reject(w, "delete", filename, 404, "File not found")
    ELSE get_status(Push([EnterApi(w, "delete", filename, "get_status")
                             EXCEPT !.me.path = file_path.v], "api_delete"))

\* file_path.unlink(): removed and 200, or an error and 500.
Unlink(w, ok) ==
    IF ok THEN Respond([w EXCEPT !.app.files = @ \ {w.me.path}], 200)
    ELSE Respond(w, 500)

\* if current_status.get('current_file') == filename: mpv.stop(); then the
\* file is unlinked.
ApiDelete(w, ok) ==
    IF w.me.snap.current_file # None
       /\ Str(w.me.snap.current_file) = w.me.req
    THEN stop(Push(Call(w, "stop"), "api_unlink"))
    ELSE Unlink(w, ok)

\* The parameters requests carry.
Filenames ==
    {<<>>, Str("a.mp4"), Str("x.mp4"), Str("l.mp4"),
     <<"a", " ", "b", ".", "m", "p", "4">>,
     <<".", ".", "/", "a", ".", "m", "p", "4">>,
     <<".", ".", "/", ".", ".", "/", ".", ".", "/", "e", "t", "c", "/",
       "p", "a", "s", "s", "w", "d">>}
RawSeconds ==
    {Missing, Null, NaN, IntValue(1), IntValue(-1), StrValue(<<"1">>),
     IntValue(3601), FloatValue(-36001)}
RawPositions ==
    {Missing, StrValue(<<"a">>), IntValue(0), FloatValue(10), IntValue(-1),
     IntValue(86401)}
RawLevels ==
    {Missing, Null, StrValue(<<"a">>), IntValue(50), IntValue(150),
     StrValue(<<"7", "5">>), FloatValue(759), FloatValue(1509),
     IntValue(151), IntValue(-1), Infinity}
RawOutputs ==
    {Missing, IntValue(1), StrValue(<<"D", "P">>), StrValue(Str("auto")),
     StrValue(Str("HDMI-A-1"))}

\* A status request is served whenever the thread is free.
StatusRequest(t) ==
    At(t, "idle") /\
        Commit(t, [api_status(World(t)) EXCEPT !.me.budget = th[t].budget])

PlayRequest(t) ==
    Idle(t) /\ \E filename \in Filenames : Commit(t, api_play(World(t), filename))

SkipRequest(t) ==
    Idle(t) /\ \E seconds \in RawSeconds : Commit(t, api_skip(World(t), seconds))

SeekRequest(t) ==
    Idle(t) /\ \E position \in RawPositions :
        Commit(t, api_seek(World(t), position))

VolumeRequest(t) ==
    Idle(t) /\ \E level \in RawLevels : Commit(t, api_volume(World(t), level))

HdmiRequest(t) ==
    Idle(t) /\ \E output \in RawOutputs : Commit(t, api_hdmi(World(t), output))

\* The file name of a DELETE comes from the URL: it holds no "/".
DeleteRequest(t) ==
    Idle(t) /\ \E filename \in Filenames :
        /\ filename # <<>> /\ \A i \in DOMAIN filename : filename[i] # "/"
        /\ Commit(t, delete_file(World(t), filename))

ApiDoneStep(t) == At(t, "api_done") /\ Commit(t, Respond(World(t), 200))

ApiVolumeStep(t) ==
    At(t, "api_volume") /\ \E outcome \in SaveOutcomes :
        Commit(t, ApiVolumeDone(World(t), outcome))

ApiHdmiStep(t) ==
    At(t, "api_hdmi") /\ \E outcome \in SaveOutcomes :
        Commit(t, ApiHdmiDone(World(t), outcome))

ApiDeleteStep(t) ==
    At(t, "api_delete") /\ \E ok \in BOOLEAN : Commit(t, ApiDelete(World(t), ok))

ApiUnlinkStep(t) ==
    At(t, "api_unlink") /\ \E ok \in BOOLEAN : Commit(t, Unlink(World(t), ok))

\* What a request thread does: it takes a request, or goes on inside one.
StepApp(t) ==
    \/ PlayRequest(t) \/ SkipRequest(t) \/ SeekRequest(t)
    \/ VolumeRequest(t) \/ HdmiRequest(t) \/ DeleteRequest(t)
    \/ StatusRequest(t)
    \/ ApiDoneStep(t) \/ ApiVolumeStep(t) \/ ApiHdmiStep(t)
    \/ ApiDeleteStep(t) \/ ApiUnlinkStep(t)
    \/ StopFieldsStep(t) \/ CleanupWaitStep(t) \/ CleanupKillStep(t)
    \/ PlaySpawnStep(t) \/ PlayWaitStep(t) \/ PlayTimeoutStep(t)
    \/ PlayErrorStep(t) \/ PlayDurationStep(t)
    \/ ResumeSetStep(t)
    \/ SkipSendStep(t) \/ SkipReloadStep(t)
    \/ SeekSendStep(t) \/ SeekReloadStep(t)
    \/ VolumeSetStep(t)
    \/ HdmiPlayStep(t) \/ HdmiSeekStep(t) \/ HdmiReturnStep(t)
    \/ StatusPosStep(t) \/ StatusPauseStep(t)

\* The files of the media directory when the front end starts.
MediaFiles ==
    {<<"media", "a.mp4">>, <<"media", "a_b.mp4">>, <<"media", "l.mp4">>}

InitFront ==
    /\ state = STOPPED /\ process = 0 /\ current_file = None
    /\ current_position = 0 /\ duration = 0 /\ volume = DefaultVolume
    /\ hdmi_output = "auto"
    /\ procs = [p \in ProcIds |-> FreeProc]
    /\ sock = 0
    /\ app = [InitApp EXCEPT !.files = MediaFiles]
    /\ th = [t \in {1} |-> [IdleFrame EXCEPT !.budget = AppCalls]]

NextApp == (\E t \in AllThreads : StepApp(t)) \/ (\E p \in ProcIds : Player(p))

SpecApp == InitFront /\ [][NextApp]_vars

\* Overlapping requests: the operations the front end's threads interleave.
StepConc(t) ==
    \/ StopCall(t) \/ StopFieldsStep(t) \/ CleanupWaitStep(t)
    \/ CleanupKillStep(t)
    \/ PlayCall(t) \/ PlaySpawnStep(t) \/ PlayWaitStep(t) \/ PlayTimeoutStep(t)
    \/ PlayErrorStep(t) \/ PlayDurationStep(t)
    \/ PauseCall(t) \/ PauseGetStep(t) \/ PauseSetStep(t)
    \/ ResumeCall(t) \/ ResumeSetStep(t)
    \/ GetStatusCall(t) \/ StatusPosStep(t) \/ StatusPauseStep(t)

NextConc == (\E t \in AllThreads : StepConc(t)) \/ (\E p \in ProcIds : Player(p))

SpecConc == InitConc /\ [][NextConc]_vars

\* ============================================================ the claims
\* Thread t is between operations, its last one being op.
Returned(t, op) == th[t].pc = "idle" /\ th[t].op = op

\* The step is thread t calling op.
Calls(t, op) == th[t].pc = "idle" /\ th'[t] # th[t] /\ th'[t].op = op

\* The step is thread t's, and belongs to an operation op.
StepOf(t, op) == th'[t] # th[t] /\ th'[t].op = op

\* What is_running() would answer: there is a handle and its child lives.
Running == process # 0 /\ procs[process].st = "alive"

Alive == {p \in ProcIds : procs[p].st = "alive"}

\* The controller's torn-down condition that stop() establishes.
StoppedClean ==
    /\ state = STOPPED /\ process = 0 /\ sock = 0
    /\ current_file = None /\ current_position = 0 /\ duration = 0

C2_NotRunningNoIpc ==
    [][\A t \in Threads :
        \A op \in {"skip", "seek", "pause", "resume", "set_volume"} :
            Calls(t, op) /\ ~Running =>
                /\ th'[t].pc = "idle"
                /\ th'[t].ret = "false"
                /\ th'[t].ipc = <<>>]_vars

\* C2 witness: pause() was called in state PLAYING after the child had
\* exited; it returned False without IPC (and the death was detected).
C2_Witness ==
    \E t \in Threads :
        /\ Returned(t, "pause") /\ th[t].state0 = PLAYING
        /\ th[t].ret = "false" /\ th[t].ipc = <<>> /\ state = STOPPED

\* C3: once play(path) has returned True the state is PLAYING, there is a
\* handle and current_file is the path's file name; once a stop() issued
\* next has returned, current_file is None and the state is STOPPED.
C3_PlayThenStop ==
    \A t \in Threads :
        /\ Returned(t, "play") /\ th[t].ret = "true" =>
              /\ state = PLAYING
              /\ process # 0
              /\ current_file = PathName(th[t].path)
        /\ Returned(t, "stop") /\ th[t].prev.op = "play"
                               /\ th[t].prev.ret = "true" =>
              current_file = None /\ state = STOPPED

\* C3 witness: stop() has returned right after a play() that returned True.
C3_Witness ==
    \E t \in Threads :
        /\ Returned(t, "stop") /\ th[t].prev.op = "play"
        /\ th[t].prev.ret = "true" /\ th[t].prev.state0 = STOPPED

\* The play attempt of thread t ran out of readiness checks.
TimedOut(t) == th[t].op = "play" /\ th[t].attempt = max_attempts

\* C4: when all max_attempts readiness checks of a play attempt found no
\* socket file, play returns False, the state is not PLAYING, there is no
\* handle, no child is alive and no socket file is left.
C4_ReadinessTimeout ==
    \A t \in Threads :
        TimedOut(t) /\ th[t].pc \in {"play_timeout", "idle"} =>
            /\ th[t].pc = "idle" => th[t].ret = "false"
            /\ state # PLAYING
            /\ process = 0
            /\ Alive = {}
            /\ sock = 0

\* C4 witness: a play() called while PLAYING has returned after its
\* readiness checks ran out.
C4_Witness ==
    \E t \in Threads :
        /\ TimedOut(t) /\ th[t].pc = "idle" /\ th[t].state0 = PLAYING
        /\ th[t].ret = "false"

\* Two pause() calls in succession by thread t, both returning True with
\* both reads of the pause flag answered, the first called in state PLAYING.
PausedTwice(t) ==
    /\ Returned(t, "pause") /\ th[t].ret = "true" /\ th[t].is_paused # None
    /\ th[t].prev.op = "pause" /\ th[t].prev.ret = "true"
    /\ th[t].prev.is_paused # None /\ th[t].prev.state0 = PLAYING

\* The cached state went PLAYING -> PAUSED -> PLAYING and the second call
\* wrote back the flag value the first call had read.
ToggledBack(t) ==
    /\ th[t].state0 = PAUSED
    /\ state = PLAYING
    /\ Not(th[t].is_paused) = th[t].prev.is_paused

\* C5 as stated: two successful pause() calls from state PLAYING move the
\* cached state PLAYING -> PAUSED -> PLAYING and restore the pause flag.
C5_AsStated == \A t \in Threads : PausedTwice(t) => ToggledBack(t)

\* C5 amended: the same, provided the first call read the pause flag as
\* false (the player had not paused itself at the end of the file).
C5_PauseTwice ==
    \A t \in Threads :
        PausedTwice(t) /\ th[t].prev.is_paused = "false" => ToggledBack(t)

\* C5 witness: such a pair of calls has returned.
C5_Witness ==
    \E t \in Threads :
        PausedTwice(t) /\ th[t].prev.is_paused = "false" /\ state = PLAYING

\* C6: a get_status() called while is_running() is false returns in that
\* very step a dictionary with position 0 and is_paused False, and opens no
\* IPC connection.
C6_StatusNotRunning ==
    [][\A t \in Threads :
        Calls(t, "get_status") /\ ~Running =>
            /\ th'[t].pc = "idle"
            /\ th'[t].snap.position = 0
            /\ th'[t].snap.is_paused = "false"
            /\ th'[t].ipc = <<>>]_vars

\* C6 witness: get_status() returned without IPC while the cached position
\* was not 0 and the cached state it found was PAUSED.
C6_Witness ==
    \E t \in Threads :
        /\ Returned(t, "get_status") /\ th[t].ipc = <<>>
        /\ current_position > 0 /\ th[t].state0 = PAUSED
        /\ th[t].snap.position = 0 /\ th[t].snap.is_paused = "false"

\* C7 as stated: after a get_status() that polled the running player, the
\* dictionary's position is the polled time-pos, or the cached
\* current_position when that poll gave no data; its is_paused and state
\* follow the polled pause flag, or the state is the cached one, unchanged,
\* when that poll gave no data.
C7_AsStated ==
    \A t \in Threads :
        Returned(t, "get_status") /\ Len(th[t].ipc) = 2 =>
            /\ IF th[t].ipc[1].res = "ok"
               THEN th[t].snap.position = th[t].ipc[1].data
               ELSE th[t].snap.position = current_position
            /\ IF th[t].ipc[2].res = "ok"
               THEN /\ th[t].snap.is_paused = th[t].ipc[2].data
                    /\ th[t].snap.state =
                         (IF th[t].ipc[2].data = "true" THEN PAUSED ELSE PLAYING)
                    /\ state = th[t].snap.state
               ELSE /\ th[t].snap.state = th[t].state0
                    /\ state = th[t].state0

\* C8: when play is about to spawn, the old child is gone, the handle is
\* cleared and the socket file removed; with one calling thread at most one
\* child is alive at any time.
C8_StopBeforeSpawn ==
    /\ Cardinality(Alive) <= 1
    /\ \A t \in Threads :
          th[t].pc = "play_spawn" => process = 0 /\ sock = 0 /\ Alive = {}

\* C8 witness: a play() called in state PLAYING has stopped the running
\* player (current_file was reset) and is about to spawn.
C8_Witness ==
    \E t \in Threads :
        /\ th[t].pc = "play_spawn" /\ th[t].op = "play"
        /\ th[t].state0 = PLAYING /\ current_file = None /\ state = STOPPED

\* C9 as stated: under overlapping calls at most one child is alive at any
\* time and every live child is the one the handle refers to.
C9_AsStated ==
    /\ Cardinality(Alive) <= 1
    /\ \A p \in Alive : process = p

\* C10: between operations a handle exists only in state PLAYING or PAUSED.
C10_HandleImpliesActive ==
    (\A t \in Threads : th[t].pc = "idle") =>
        (process # 0 => state \in {PLAYING, PAUSED})

\* C10 witness: between operations, a handle in state PAUSED.
C10_Witness ==
    /\ \A t \in Threads : th[t].pc = "idle"
    /\ process # 0 /\ state = PAUSED

\* The step is thread t's.
Moves(t) == th'[t] # th[t]

\* The step moves the cached state to STOPPED from another state.
BecomesStopped == state' = STOPPED /\ state # STOPPED

\* C11 as stated: every step that moves state to STOPPED also resets
\* current_file to None, duration to 0 and volume to its default, and no
\* other step resets one of these fields to its default.
C11_AsStated ==
    [][IF BecomesStopped
       THEN current_file' = None /\ duration' = 0 /\ volume' = DefaultVolume
       ELSE /\ current_file # None => current_file' # None
            /\ duration # 0 => duration' # 0
            /\ volume # DefaultVolume => volume' # DefaultVolume]_vars

\* There is a handle and its child has exited: what is_running() detects.
DeadHandle == process # 0 /\ ~PollIsNone(procs, process)

\* The operations that begin with is_running() (play: once the file exists).
CheckingOps ==
    {"is_running", "pause", "resume", "skip", "seek", "set_volume",
     "set_hdmi_output", "play"}

\* The step changes a field of the controller.
FieldsChange ==
    <<state, process, current_file, current_position, duration, volume,
      hdmi_output>>' #
    <<state, process, current_file, current_position, duration, volume,
      hdmi_output>>

\* The step is thread t calling an operation that consults is_running()
\* first. (A call changes the caller's frame, or leaves a frame equal to the
\* one of an equal call before it; no step of the player changes a field.)
CallsChecking(t) ==
    /\ th[t].pc = "idle"
    /\ Moves(t) \/ (th' = th /\ FieldsChange)
    /\ th'[t].op \in CheckingOps
    /\ th'[t].op = "play" => PathExists(th'[t].path)

\* The operation thread t called went the way of is_running() = False.
TookNotRunning(t) ==
    CASE th'[t].op = "is_running" -> th'[t].pc = "idle" /\ th'[t].ret = "false"
      [] th'[t].op = "play" -> th'[t].pc = "play_spawn" /\ th'[t].rv = "false"
      [] th'[t].op = "set_hdmi_output" ->
            th'[t].pc = "idle" /\ th'[t].ret = "true"
      [] OTHER -> th'[t].pc = "idle" /\ th'[t].ret = "false"

\* The operation thread t called went the way of is_running() = True.
TookRunning(t) ==
    CASE th'[t].op = "is_running" -> th'[t].pc = "idle" /\ th'[t].ret = "true"
      [] th'[t].op \in {"play", "set_hdmi_output"} ->
            th'[t].pc = "cleanup_wait" /\ th'[t].rv = "true"
      [] OTHER -> th'[t].pc # "idle" /\ th'[t].rv = "true"

Returns(t, v) ==
    IF th[t].stack = <<>>
    THEN th'[t].pc = "idle" /\ th'[t].ret = v
    ELSE th'[t].pc = Head(th[t].stack) /\ th'[t].rv = v

FailedFromStopped(t) ==
    Returned(t, "play") /\ th[t].state0 = STOPPED /\ th[t].ret = "false"

\* The failed play of thread t failed by a fault: the file was there and
\* the readiness checks did not run out.
Faulted(t) == PathExists(th[t].path) /\ ~TimedOut(t)

\* C14 as stated: whenever play is called in state STOPPED and returns
\* False, the state afterwards is ERROR.
C14_AsStated == \A t \in Threads : FailedFromStopped(t) => state = ERROR

\* C14 amended: whenever play is called in state STOPPED and returns False,
\* the state afterwards is ERROR when a step of the attempt faulted, and
\* still STOPPED when the file was missing or the readiness checks ran out.
C14_PlayFailure ==
    \A t \in Threads :
        FailedFromStopped(t) =>
            state = IF Faulted(t) THEN ERROR ELSE STOPPED

\* C14 witness: a play() called in state STOPPED has returned False after
\* its readiness checks ran out, and the state is STOPPED.
C14_Witness ==
    \E t \in Threads :
        FailedFromStopped(t) /\ TimedOut(t) /\ state = STOPPED

\* The step is thread t, at the place its pc names, making one of the
\* listed transitions of the cached state: stop, a successful play, a pause
\* toggle, resume, a detected death of the child, a faulted play. (No step
\* of the player changes the cached state.)
Listed(t) ==
    \/ th[t].pc = "stop_fields" /\ state' = STOPPED
    \/ th[t].pc = "play_wait" /\ state \in {STOPPED, ERROR} /\ state' = PLAYING
    \/ /\ th[t].pc = "pause_set"
       /\ <<state, state'>> \in {<<PLAYING, PAUSED>>, <<PAUSED, PLAYING>>}
    \/ th[t].pc = "resume_set" /\ state = PAUSED /\ state' = PLAYING
    \/ /\ th[t].pc \in {"idle", "hdmi_play", "hdmi_seek"}
       /\ DeadHandle /\ process' = 0
       /\ state \in {PLAYING, PAUSED} /\ state' = STOPPED
    \/ th[t].pc = "play_error" /\ state = STOPPED /\ state' = ERROR

\* The step of thread t is get_status() setting the cached state from the
\* pause flag it polled.
Reconciled(t) ==
    LET l == th'[t].ipc IN
    /\ th[t].pc = "status_pause"
    /\ Len(l) > Len(th[t].ipc)
    /\ l[Len(l)].name = "pause" /\ l[Len(l)].res = "ok"
    /\ state \in {PLAYING, PAUSED}
    /\ state' = IF l[Len(l)].data = "true" THEN PAUSED ELSE PLAYING

\* C15 as stated: every change of the cached state is one of the listed
\* transitions; get_status() makes none.
C15_AsStated ==
    [][state' # state => \E t \in Threads : Listed(t)]_vars

\* C15 amended: every change of the cached state is one of the listed
\* transitions, or is PLAYING -> PAUSED or PAUSED -> PLAYING made by
\* get_status() from a pause flag it polled successfully.
C15_Transitions ==
    [][state' # state =>
        \E t \in Threads : Listed(t) \/ Reconciled(t)]_vars

\* C15 witness: get_status() found the cached state PLAYING and left it
\* PAUSED, the player having paused itself.
C15_Witness ==
    \E t \in Threads :
        /\ Returned(t, "get_status") /\ th[t].state0 = PLAYING
        /\ state = PAUSED /\ th[t].snap.state = PAUSED

\* C16 as stated: every operation that has returned gave its caller a
\* boolean, or the status dictionary for get_status.
C16_AsStated ==
    \A t \in Threads :
        th[t].pc = "idle" /\ th[t].op # None =>
            IF th[t].op = "get_status"
            THEN th[t].ret = "status"
            ELSE th[t].ret \in {"true", "false"}

\* The step is thread t making the IPC exchange of the place it is at.
AtIpc(t) == th[t].pc \in IpcLabels /\ Moves(t)

\* The step of thread t opened a connection; the log entry of the exchange.
Connected(t) == Len(th'[t].ipc) > Len(th[t].ipc)

Exchange(t) == th'[t].ipc[Len(th'[t].ipc)]

\* _send_command gave None: no socket file, or a connection that brought
\* no usable reply.
NoResponse(t) == ~Connected(t) \/ Exchange(t).res \in {"none", "refused"}

\* The player answered the exchange with the success marker.
Answered(t) == Connected(t) /\ Exchange(t).res = "ok"

\* What the method made of an exchange that gave None: _get_property gave
\* None (nothing is stored), _set_property and the seek command reported no
\* success (None is returned, no cached field follows).
GotNone(t) ==
    CASE th[t].pc = "pause_get" -> th'[t].is_paused = None
      [] th[t].pc = "status_pos" ->
            current_position' = current_position /\ th'[t].snap = th[t].snap
      [] th[t].pc = "status_pause" ->
            state' = state /\ th'[t].snap = th[t].snap
      [] th[t].pc = "play_duration" -> duration' = 0
      [] th[t].pc \in {"pause_set", "resume_set", "volume_set"} ->
            Returns(t, None) /\ state' = state /\ volume' = volume
      [] th[t].pc \in {"skip_send", "seek_send"} -> Returns(t, None)
      [] OTHER -> TRUE

\* C17: an IPC exchange opens a connection exactly when the socket file
\* exists; without the file, and when the connection brings no usable reply
\* (refused, timeout, IO error, empty or unparseable reply), _send_command
\* gives None, _get_property gives None and _set_property reports no success.
C17_IpcFailure ==
    [][\A t \in Threads :
        AtIpc(t) =>
            /\ Connected(t) <=> sock # 0
            /\ NoResponse(t) => GotNone(t)]_vars

\* C17 witness: pause() found the player running, the player then exited
\* removing its socket file, and pause() returned None without having
\* opened a connection.
C17_Witness ==
    \E t \in Threads :
        /\ Returned(t, "pause") /\ th[t].state0 = PLAYING /\ state = PLAYING
        /\ th[t].ipc = <<>> /\ th[t].ret = None /\ th[t].is_paused = None

\* C18: set_volume(level) on a running player sends set_property volume
\* with the level as given; the cached volume becomes level and the call
\* returns True exactly when the player answers with the success marker,
\* otherwise the cached volume stays and the call does not return True; no
\* other step changes the cached volume.
C18_VolumeForwarded ==
    [][/\ \A t \in Threads :
            th[t].pc = "volume_set" /\ Moves(t) =>
                /\ Connected(t) =>
                      /\ Exchange(t).cmd = "set_property"
                      /\ Exchange(t).name = "volume"
                      /\ Exchange(t).val = th[t].num
                /\ IF Answered(t)
                   THEN volume' = th[t].num /\ Returns(t, "true")
                   ELSE volume' = volume /\ ~Returns(t, "true")
       /\ volume' # volume => \E t \in Threads : th[t].pc = "volume_set"]_vars

\* C18 witness: set_volume(200), a level above the front end's bound of
\* 150, returned True and the cached volume is 200.
C18_Witness ==
    \E t \in Threads :
        /\ Returned(t, "set_volume") /\ th[t].num = 200
        /\ th[t].ret = "true" /\ volume = 200
        /\ th[t].ipc[1].val = 200

\* The label of the audio resync that follows the seek command sent at pc.
ReloadLabel(pc) == IF pc = "skip_send" THEN "skip_reload" ELSE "seek_reload"

\* C19: skip and seek go on to the ao-reload command exactly when the reply
\* to their seek command reports success, so that an ao-reload in the log
\* comes right after a successful seek command; the value returned is the
\* success of the seek command (None without a reply), whatever becomes of
\* the ao-reload.
C19_SeekThenReload ==
    /\ [](\A t \in Threads :
            /\ \A i \in DOMAIN th[t].ipc :
                  th[t].ipc[i].cmd = "ao-reload" =>
                      /\ i > 1
                      /\ th[t].ipc[i - 1].cmd = "seek"
                      /\ th[t].ipc[i - 1].res = "ok"
            /\ (Returned(t, "skip") \/ Returned(t, "seek"))
                    /\ th[t].ipc # <<>> =>
                  th[t].ret = Success(th[t].ipc[1].res))
    /\ [][\A t \in Threads :
            /\ th[t].pc \in {"skip_send", "seek_send"} /\ Moves(t) =>
                  /\ Connected(t) =>
                        /\ Exchange(t).cmd = "seek"
                        /\ Exchange(t).val = th[t].num
                  /\ IF Answered(t)
                     THEN th'[t].pc = ReloadLabel(th[t].pc)
                     ELSE Returns(t, IF Connected(t)
                                     THEN Success(Exchange(t).res) ELSE None)
            /\ th[t].pc \in {"skip_reload", "seek_reload"} /\ Moves(t) =>
                  /\ Connected(t) => Exchange(t).cmd = "ao-reload"
                  /\ Returns(t, "true")]_vars

\* C19 witness: skip() returned True although its ao-reload got no reply.
C19_Witness ==
    \E t \in Threads :
        /\ Returned(t, "skip") /\ Len(th[t].ipc) = 2
        /\ th[t].ipc[1].cmd = "seek" /\ th[t].ipc[1].res = "ok"
        /\ th[t].ipc[2].cmd = "ao-reload" /\ th[t].ipc[2].res = "none"
        /\ th[t].ret = "true"

\* C20 as stated: resume() on a running player writes pause = false; when
\* the write succeeds it returns True and the cached state is PLAYING, and
\* when it fails it returns False and the cached state is as it was.
C20_AsStated ==
    [][\A t \in Threads :
        th[t].pc = "resume_set" /\ Moves(t) =>
            /\ Connected(t) =>
                  /\ Exchange(t).cmd = "set_property"
                  /\ Exchange(t).name = "pause"
                  /\ Exchange(t).val = "false"
            /\ IF Answered(t)
               THEN Returns(t, "true") /\ state' = PLAYING
               ELSE Returns(t, "false") /\ state' = state]_vars

\* The step is thread t calling an operation. (A call changes the caller's
\* frame, or leaves a frame equal to the one of an equal call before it; no
\* step of the player changes a field.)
CallsOp(t, op) ==
    /\ th[t].pc = "idle"
    /\ Moves(t) \/ (th' = th /\ FieldsChange)
    /\ th'[t].op = op

\* The children alive after the step.
AliveAfter == {p \in ProcIds : procs'[p].st = "alive"}

\* The step is a launch by thread t: Popen gave a new child.
Launches(t) == th[t].pc = "play_spawn" /\ Moves(t) /\ process' # 0

\* Every launch passes the cached selector as --drm-connector, and the
\* cached selector is changed by calls of set_hdmi_output only.
SelectorUsed ==
    /\ \A t \in Threads :
          Launches(t) =>
              procs'[process'].connector = DrmConnector(hdmi_output)
    /\ hdmi_output' # hdmi_output =>
          \E t \in Threads : CallsOp(t, "set_hdmi_output")

\* What set_hdmi_output(output) does, all but state and handle, when the
\* player is not running: the selector is recorded, True is returned, no
\* other field changes and nothing is spawned.
RecordsOnly(t) ==
    /\ hdmi_output' = th'[t].output
    /\ th'[t].pc = "idle" /\ th'[t].ret = "true"
    /\ UNCHANGED <<current_file, current_position, duration, volume>>
    /\ AliveAfter = {}

Restarts(t) == th[t].op = "set_hdmi_output" /\ th[t].path # <<>>

\* The restart of thread t has returned True.
Restarted(t) == Restarts(t) /\ th[t].pc = "idle" /\ th[t].ret = "true"

\* The steps of a restart, in their order: the call captures the cached
\* position and the file's path and begins the stop; the launch is of that
\* path on the new selector; the seek is made, to the captured position,
\* exactly when play returned True and that position is above zero; what is
\* returned is what play returned.
RestartSteps(t) ==
    /\ CallsOp(t, "set_hdmi_output") /\ Running /\ current_file # None =>
          /\ th'[t].current_pos = current_position
          /\ th'[t].path = JoinMedia(current_file)
          /\ hdmi_output' = th'[t].output
          /\ th'[t].pc = "cleanup_wait" /\ th'[t].stack = <<"stop_fields", "hdmi_play">>
          /\ procs' = procs
    /\ Restarts(t) /\ Launches(t) =>
          /\ procs'[process'].file = th[t].path
          /\ procs'[process'].connector = DrmConnector(th[t].output)
    /\ th[t].pc = "hdmi_seek" /\ Moves(t) =>
          IF th[t].rv = "true" /\ th[t].current_pos > 0
          THEN /\ th'[t].pc \in {"seek_send", "hdmi_return"}
               /\ th'[t].num = th[t].current_pos
               /\ th'[t].hdmi_success = "true"
          ELSE Returns(t, th[t].rv)
    /\ th[t].pc = "hdmi_return" /\ Moves(t) => Returns(t, "true")

\* The old child is gone and the handle cleared before play is called.
StoppedBeforeLaunch(t) ==
    Restarts(t) /\ th[t].pc = "hdmi_play" =>
        Alive = {} /\ process = 0 /\ sock = 0 /\ state = STOPPED

\* C22 as stated: set_hdmi_output on a playing file captures the cached
\* position, stops the old child, launches the same file on the new
\* selector and seeks to the captured position only if the launch succeeded
\* and that position is above zero; it returns the launch's result, and
\* after a call that returned True current_file is the file as before and
\* exactly one child is alive.
C22_AsStated ==
    /\ [](\A t \in Threads :
            /\ StoppedBeforeLaunch(t)
            /\ Restarted(t) =>
                  /\ current_file = PathName(th[t].path)
                  /\ Cardinality(Alive) = 1)
    /\ [][\A t \in Threads : RestartSteps(t)]_vars

\* C22 amended: the same, except that after a call that returned True at
\* most one child is alive, and a child alive is the one the call launched
\* (it may have exited by itself).
C22_Restart ==
    /\ [](\A t \in Threads :
            /\ StoppedBeforeLaunch(t)
            /\ Restarted(t) =>
                  /\ current_file = PathName(th[t].path)
                  /\ Cardinality(Alive) <= 1
                  /\ \A p \in Alive :
                        /\ process = p
                        /\ procs[p].file = th[t].path
                        /\ procs[p].connector = DrmConnector(th[t].output))
    /\ [][\A t \in Threads : RestartSteps(t)]_vars

\* C22 witness: a restart returned True after seeking the new child to the
\* captured position, and that child is alive on the new connector.
C22_Witness ==
    \E t \in Threads :
        /\ Restarted(t) /\ th[t].num > 0 /\ th[t].output = "HDMI-A-1"
        /\ Running /\ procs[process].connector = "HDMI-A-1"
        /\ procs[process].pos = th[t].num
        /\ current_file = PathName(th[t].path)

\* C28: a teardown blocks in the graceful wait only for a live handle, and
\* does so once; at the end of that wait a child that exited is reaped and
\* the teardown returns without a kill, and a child still alive is killed
\* and waited for once more; after that wait, reaped or timed out, the
\* teardown returns; it always returns with no handle and no socket file.
C28_Teardown ==
    [][\A t \in Threads :
        /\ th'[t].pc = "cleanup_wait" /\ th[t].pc # "cleanup_wait" =>
              Running /\ procs' = procs /\ process' = process
        /\ th'[t].pc = "cleanup_kill" /\ th[t].pc # "cleanup_kill" =>
              th[t].pc = "cleanup_wait" /\ Running
        /\ th[t].pc = "cleanup_wait" /\ Moves(t) =>
              IF Running
              THEN /\ th'[t].pc = "cleanup_kill"
                   /\ process' = process /\ procs'[process].st = "free"
              ELSE /\ th'[t].pc = Head(th[t].stack)
                   /\ process' = 0 /\ sock' = 0 /\ AliveAfter = {}
        /\ th[t].pc = "cleanup_kill" /\ Moves(t) =>
              /\ th'[t].pc = Head(th[t].stack)
              /\ process' = 0 /\ sock' = 0 /\ AliveAfter = {}]_vars

\* C28 witness: a stop() has killed a child that outlived the graceful
\* wait, and is in the wait that follows the kill; the socket file of the
\* child is still there.
C28_Witness ==
    \E t \in Threads :
        /\ th[t].pc = "cleanup_kill" /\ th[t].op = "stop"
        /\ process # 0 /\ procs[process].st = "free" /\ sock = process

\* The controller exists and no operation has been called on it yet.
Fresh == th # <<>> /\ \A t \in Threads : th[t].pc = "idle" /\ th[t].op = None

Busy(t) == t \in Threads /\ th[t].pc # "idle"

\* What bounds the loops of an operation: play counts its readiness checks
\* up to max_attempts, and a teardown waits once gracefully and at most
\* once more after a kill.
LoopsBounded ==
    /\ [](\A t \in Threads : th[t].attempt <= max_attempts)
    /\ [][\A t \in Threads :
            /\ th[t].pc = "play_wait" /\ th'[t].pc = "play_wait" /\ Moves(t) =>
                  th'[t].attempt = th[t].attempt + 1
            /\ th[t].pc = "cleanup_wait" /\ Moves(t) =>
                  th'[t].pc # "cleanup_wait"
            /\ th[t].pc = "cleanup_kill" /\ Moves(t) =>
                  th'[t].pc \notin {"cleanup_wait", "cleanup_kill"}]_vars

\* C30 as stated: every operation returns, whatever the player does: a
\* thread inside an operation always gets back to the front end; play makes
\* at most max_attempts readiness checks and a teardown at most one graceful
\* and one forced wait.
C30_AsStated ==
    /\ \A t \in AllThreads : Busy(t) ~> ~Busy(t)
    /\ LoopsBounded

\* What a new Config reads from the file as it is (the file exists).
Reloaded == load_config(app.config_file, "saved").config

\* C26: while the last Config.set(key, value) is one that returned True,
\* get(key) gives value, and so does a new Config loaded from the file;
\* and every key of the defaults that a readable file does not hold is read,
\* by a new Config, as its default.
C26_SetGetReload ==
    /\ app.last.ret = "true" =>
          /\ get(app.config, app.last.key) = app.last.value
          /\ get(Reloaded, app.last.key) = app.last.value
    /\ \A k \in ConfigKeys :
          app.config_file.exists /\ Parses(app.config_file)
              /\ k \notin DOMAIN app.config_file.text =>
                  get(Reloaded, k) = DEFAULT_CONFIG[k]

\* C26 witness: a string of digits was set and saved for hdmi_output in a
\* Config that began from a file holding the volume only, whose port
\* therefore reads as the default.
C26_Witness ==
    /\ app.last = [key |-> "hdmi_output", value |-> StrValue(<<"7", "5">>),
                   ret |-> "true"]
    /\ get(Reloaded, "hdmi_output") = StrValue(<<"7", "5">>)
    /\ get(Reloaded, "volume") = IntValue(50)
    /\ get(Reloaded, "port") = DEFAULT_CONFIG["port"]

\* The string is a numeral of an integer: blanks, a sign, digits.
Numeral(s) == AllDigits(Unsigned(Strip(s, {" "})))

\* C23: validate_volume accepts a value exactly when int() converts it to
\* an integer within VOLUME_MIN..VOLUME_MAX, and returns that integer; it
\* raises ValidationError for an integer outside the range, for None and
\* for a string that is no numeral; a request without a level is answered
\* 400; and every level that set_volume is called with by the volume
\* endpoint is the integer of the request's value and lies in the range.
C23_VolumeValidated ==
    /\ \A raw \in RawLevels \ {Missing} :
          LET vol == int(raw)
              r == validate_volume(raw)
              inside == vol.exc = None /\ VOLUME_MIN <= vol.v /\ vol.v <= VOLUME_MAX
          IN  /\ r.exc = None <=> inside
              /\ inside => r.v = vol.v
              /\ vol.exc = None /\ ~inside => r.exc = "ValidationError"
              /\ raw.kind = "null" \/ (raw.kind = "str" /\ ~Numeral(raw.s)) =>
                    r.exc = "ValidationError"
    /\ \A t \in Threads :
          /\ th[t].api = "volume" =>
                IF th[t].op = "set_volume"
                THEN /\ VOLUME_MIN <= th[t].num /\ th[t].num <= VOLUME_MAX
                     /\ int(th[t].req) = Ok(th[t].num)
                ELSE /\ th[t].op = None /\ th[t].http \in {400, 500}
                     /\ th[t].req.kind = "missing" => th[t].http = 400
          /\ th[t].op = "set_volume" => th[t].api = "volume"

\* C23 witness: the level 75.9 was accepted as 75, and set_volume(75) has
\* set the player's volume.
C23_Witness ==
    \E t \in Threads :
        /\ Returned(t, "set_volume") /\ th[t].api = "volume"
        /\ th[t].req = FloatValue(759) /\ th[t].num = 75
        /\ th[t].ret = "true" /\ volume = 75 /\ th[t].http = 200

\* The number lies outside low..high (an infinity does).
Outside(raw, low, high) ==
    \/ raw.kind = "int" /\ (raw.n < low \/ raw.n > high)
    \/ raw.kind = "float" /\ (raw.n < 10 * low \/ raw.n > 10 * high)
    \/ raw.kind = "inf"

\* The parameter of a request to api is missing or outside its bounds.
BadParameter(api, raw) ==
    \/ raw.kind = "missing"
    \/ api = "skip" /\ Outside(raw, SKIP_MIN, SKIP_MAX)
    \/ api = "seek" /\ Outside(raw, SEEK_MIN, SEEK_MAX)
    \/ api = "volume" /\ Outside(raw, VOLUME_MIN, VOLUME_MAX)
    \/ api = "hdmi" /\ ~(raw.kind = "str"
                          /\ \E o \in valid_outputs : raw.s = Str(o))

\* C24 as stated: a request to the skip, seek, volume or hdmi endpoint
\* whose parameter is missing or outside its bounds is answered 400, calls
\* no controller operation, changes neither the controller nor the
\* configuration, and leaves the thread free for the next request.
C24_AsStated ==
    [][\A t \in Threads :
          /\ th[t].pc = "idle" /\ Moves(t)
          /\ th'[t].api \in {"skip", "seek", "volume", "hdmi"}
          /\ BadParameter(th'[t].api, th'[t].req)
          => /\ th'[t].http = 400
             /\ th'[t].op = None /\ th'[t].pc = "idle"
             /\ UNCHANGED <<state, process, current_file, current_position,
                            duration, volume, hdmi_output, procs, sock, app>>]_vars

\* The file name has a component "..".
HasTraversal(filename) ==
    \E i \in 1..(Len(filename) - 1) :
        /\ filename[i] = "." /\ filename[i + 1] = "."
        /\ i = 1 \/ filename[i - 1] = "/"
        /\ i + 1 = Len(filename) \/ filename[i + 2] = "/"

\* C25 as stated: a request whose file name has a parent-directory
\* component is answered 400 with the report of a path-traversal attempt,
\* and every path that a request hands to the controller lies inside the
\* media directory.
C25_AsStated ==
    \A t \in Threads :
        th[t].api \in {"play", "delete"} =>
            /\ HasTraversal(th[t].req) =>
                  /\ th[t].http = 400
                  /\ th[t].error = "Path traversal attempt detected"
            /\ th[t].op \in {"play", "get_status", "stop"} =>
                  relative_to(th[t].path, media_dir)

\* C27 as stated: whenever a file is removed, no live player has it as its
\* current file (the stop() of the playing file has completed before).
C27_AsStated ==
    [][\A path \in app.files \ app'.files :
          ~(Alive # {} /\ process # 0 /\ current_file = PathName(path))]_vars

\* The places where _set_property is called, and where _get_property is.
SetLabels == {"pause_set", "resume_set", "volume_set"}

GetLabels == {"pause_get", "status_pos", "status_pause", "play_duration"}

\* What the caller holds after _get_property: the value it was given.
Got(t, v) ==
    CASE th[t].pc = "pause_get" -> th'[t].is_paused = v
      [] th[t].pc = "status_pos" ->
            current_position' = v /\ th'[t].snap.position = v
      [] th[t].pc = "status_pause" -> th'[t].snap.is_paused = v
      [] th[t].pc = "play_duration" -> duration' = v

\* C31: _get_property gives its caller the data field of the reply exactly
\* when a reply was received and its status is the success marker, and
\* None otherwise; _set_property is true exactly when a reply was received
\* and its status is the success marker.
C31_PropertyWrappers ==
    [][\A t \in Threads :
        AtIpc(t) =>
            /\ th[t].pc \in GetLabels =>
                  IF Answered(t)
                  THEN /\ Exchange(t).cmd = "get_property"
                       /\ Exchange(t).data =
                              PlayerProperty(procs[sock], Exchange(t).name)
                       /\ Got(t, Exchange(t).data)
                  ELSE GotNone(t)
            /\ th[t].pc \in SetLabels =>
                  /\ Answered(t) => Exchange(t).cmd = "set_property"
                  /\ Returns(t, "true") <=> Answered(t)]_vars

\* C31 witness: pause() read the flag and was answered with a status other
\* than the success marker (it holds None), then wrote the flag and was
\* answered with the success marker (it returned True).
C31_Witness ==
    \E t \in Threads :
        /\ Returned(t, "pause") /\ Len(th[t].ipc) = 2
        /\ th[t].ipc[1].cmd = "get_property" /\ th[t].ipc[1].res = "err"
        /\ th[t].is_paused = None
        /\ th[t].ipc[2].cmd = "set_property" /\ th[t].ipc[2].res = "ok"
        /\ th[t].ret = "true"

\* The operations that neither start nor stop playback.
OtherOps ==
    {"pause", "resume", "skip", "seek", "set_volume", "set_hdmi_output",
     "is_running", "get_status"}

\* The call thread t made found no running player and has returned: False
\* from is_running, pause, resume, skip, seek and set_volume, True from
\* set_hdmi_output (the selector is recorded), the snapshot of the cached
\* fields from get_status. No connection was opened.
ReportsNotRunning(t) ==
    /\ th'[t].pc = "idle" /\ th'[t].ipc = <<>>
    /\ CASE th'[t].op = "get_status" ->
              /\ th'[t].ret = "status"
              /\ th'[t].snap.state = state /\ th'[t].snap.position = 0
              /\ th'[t].snap.is_paused = "false"
         [] th'[t].op = "set_hdmi_output" -> th'[t].ret = "true"
         [] OTHER -> th'[t].ret = "false"

\* C32: while state is ERROR there is no handle; a call of pause, resume,
\* skip, seek, set_volume, set_hdmi_output, is_running or get_status made
\* in state ERROR finds no running player, returns at once and leaves state
\* ERROR; and every step that moves the state out of ERROR is a step of a
\* play or of a stop.
C32_ErrorPersists ==
    /\ [](state = ERROR /\ (\A t \in Threads : th[t].pc = "idle") => process = 0)
    /\ [][/\ \A t \in Threads : \A op \in OtherOps :
               CallsOp(t, op) /\ state = ERROR =>
                   ReportsNotRunning(t) /\ state' = ERROR /\ process' = 0
          /\ state = ERROR /\ state' # ERROR =>
               \E t \in Threads : Moves(t) /\ th'[t].op \in {"play", "stop"}]_vars

\* C32 witness: get_status() was called in state ERROR and has returned a
\* snapshot reporting ERROR, the state still being ERROR.
C32_Witness ==
    \E t \in Threads :
        /\ Returned(t, "get_status") /\ th[t].state0 = ERROR
        /\ th[t].snap.state = ERROR /\ state = ERROR /\ process = 0

\* C33 as stated: at the step by which get_status() returns, the state
\* field of the snapshot is the cached state (so with a player that had
\* exited before the call it is STOPPED).
C33_AsStated ==
    [][\A t \in Threads :
          Moves(t) /\ th'[t].op = "get_status" /\ th'[t].pc = "idle" =>
              th'[t].snap.state = state']_vars

\* C34: play(path) for a path that does not exist returns False at once,
\* opens no connection, and changes no field of the controller, no child
\* (none is stopped, none is spawned), nor the socket file.
C34_MissingFile ==
    [][\A t \in Threads :
          CallsOp(t, "play") /\ th'[t].path \notin app.files =>
              /\ th'[t].pc = "idle" /\ th'[t].ret = "false"
              /\ th'[t].ipc = <<>>
              /\ UNCHANGED <<state, process, current_file, current_position,
                             duration, volume, hdmi_output, procs, sock,
                             app>>]_vars

\* C34 witness: play() of a missing file has returned False while the player
\* started before it is still running and playing its file.
C34_Witness ==
    \E t \in Threads :
        /\ Returned(t, "play") /\ th[t].path \notin app.files
        /\ th[t].ret = "false" /\ th[t].state0 = PLAYING
        /\ state = PLAYING /\ Running /\ current_file = "a.mp4"

\* C35: at the step by which a pause() or a resume() returns True, the
\* cached state is PAUSED if the pause flag of the player is true and
\* PLAYING if it is false; a pause() whose read of the flag gave None has
\* set the flag and caches PAUSED.
C35_CacheFollowsFlag ==
    [][\A t \in Threads :
          /\ th[t].pc \in {"pause_set", "resume_set"} /\ Moves(t)
          /\ Returns(t, "true")
          => /\ process' # 0 /\ sock' = process'
             /\ state' \in {PAUSED, PLAYING}
             /\ state' = PAUSED <=> procs'[process'].paused
             /\ th[t].pc = "pause_set" /\ th[t].is_paused = None =>
                    state' = PAUSED /\ procs'[process'].paused]_vars

\* C35 witness: a pause() whose read of the flag gave None has returned
\* True; the player is paused and the cached state is PAUSED.
C35_Witness ==
    \E t \in Threads :
        /\ Returned(t, "pause") /\ th[t].ret = "true"
        /\ th[t].is_paused = None /\ Len(th[t].ipc) = 2
        /\ state = PAUSED /\ Running /\ procs[process].paused

\* C36 as stated: under overlapping play, stop, pause, resume and
\* get_status calls, once every call has returned, state PLAYING or PAUSED
\* comes with a handle, and state STOPPED comes with no handle and no
\* current file.
C36_AsStated ==
    (\A t \in Threads : th[t].pc = "idle") =>
        /\ state \in {PLAYING, PAUSED} => process # 0
        /\ state = STOPPED => process = 0 /\ current_file = None

\* C37 as stated: when a request to the hdmi endpoint or to the volume
\* endpoint is answered, the configuration's hdmi_output is the
\* controller's hdmi_output and the configuration's volume is the
\* controller's volume.
C37_AsStated ==
    [][\A t \in Threads :
          Moves(t) /\ th'[t].pc = "idle" /\ th'[t].api \in {"hdmi", "volume"} =>
              /\ get(app'.config, "hdmi_output") = StrValue(Str(hdmi_output'))
              /\ get(app'.config, "volume") = IntValue(volume')]_vars

====
